---- MODULE Spec2Model ----
(***************************************************************************)
(* Model of the valuation code of AflFantasyManager:                       *)
(*   - AFLCompleteProcessor.calculate_price_change / _price_per_point      *)
(*     (src/afl_complete_processor.py)                                     *)
(*   - BreakEvenPricingProcessor.calculate_breakeven_score /               *)
(*     calculate_price_change_from_breakeven                               *)
(*     (src/correct_breakeven_formula.py)                                  *)
(*   - DVPAnalyzer.create_dvp_team_ratings                                 *)
(*     (src/attached_assets/dvp_analysis_1760666088962.py)                 *)
(* Each specification starts with one call and its arguments drawn from a  *)
(* bounded set, and its action runs the whole method.                      *)
(*                                                                         *)
(* Numbers.  The Python code computes on floats; the model computes the    *)
(* same expressions exactly, on fixed-point integers:                      *)
(*   - a score is a whole number of points;                                *)
(*   - an entry of a score window is held in twelfths of a point           *)
(*     (PadScale), so that the mean of 3 or 4 scores is exact;             *)
(*   - a weight is held in thousandths, a weighted sum therefore in        *)
(*     1/12000 of a point (SumScale);                                      *)
(*   - a break-even score and an actual score are held in tenths;          *)
(*   - a price per point is held in hundredths.                            *)
(* Python's round() rounds half to even; RoundHalfEven does the same.      *)
(***************************************************************************)
EXTENDS Integers, Sequences, FiniteSets, TLC

VARIABLES
    (* AFLCompleteProcessor: the call being made, its arguments, locals, result *)
    pm_call, pm_pc,
    old_price, scores, round_num,
    valid_scores, weighted_sum, magic_number, new_price,
    price, average_points, ppp_result,
    (* BreakEvenPricingProcessor: the call being made, its arguments, locals, result *)
    be_call, be_pc,
    current_price, recent_scores, be_round_num,
    padded_scores, weighted_avg, be_result,
    actual_score, breakeven_score,
    score_difference, base_change, adjustment_factor, adjusted_change,
    protection_chance, be_new_price,
    (* DVPAnalyzer: position in run_full_analysis, attributes, raised error *)
    dvp_pc, team_defensive_stats, team_dvp_ratings, dvp_error,
    (* DVPAnalyzer: the loaded data and the attributes the other steps of
       run_full_analysis write *)
    position_mapping, player_data, player_to_position,
    player_dvp_ratings, best_worst_team_defense, best_worst_player_matchups,
    (* MasterStatsConsolidator: position in run_consolidation, master_stats,
       the contents of the source files *)
    ms_pc, master_stats,
    base_players, metrics_data, value_data, dfs_files, df_cba, df_kickins,
    (* MasterStatsConsolidator: what save_master_file writes *)
    output_data,
    (* normalize_name: the call, its argument and its result *)
    nn_pc, nn_name, nn_normalized,
    (* test_breakeven_system: position, the loaded data, the loop and its results *)
    tb_pc, tb_data, tb_next, test_results, tb_summary,
    (* DFSPipelineOrchestrator: position in run, the directories, the loader's
       outcome and the progress file, the step results, the value run returns *)
    or_pc, source_files, raw_data_files, archive_files, progress_file,
    consolidated, loader_success, archive_success, or_result

pmVars == << pm_call, pm_pc, old_price, scores, round_num,
             valid_scores, weighted_sum, magic_number, new_price,
             price, average_points, ppp_result >>

beVars == << be_call, be_pc, current_price, recent_scores, be_round_num,
             padded_scores, weighted_avg, be_result,
             actual_score, breakeven_score,
             score_difference, base_change, adjustment_factor, adjusted_change,
             protection_chance, be_new_price >>

dvpVars == << dvp_pc, team_defensive_stats, team_dvp_ratings, dvp_error >>

runVars == << position_mapping, player_data, player_to_position,
              player_dvp_ratings, best_worst_team_defense,
              best_worst_player_matchups >>

msFiles == << base_players, metrics_data, value_data, dfs_files, df_cba, df_kickins >>

msVars == << ms_pc, master_stats, msFiles, output_data >>

nnVars == << nn_pc, nn_name, nn_normalized >>

tbVars == << tb_pc, tb_data, tb_next, test_results, tb_summary >>

orVars == << or_pc, source_files, raw_data_files, archive_files, progress_file,
             consolidated, loader_success, archive_success, or_result >>

vars == << pmVars, beVars, dvpVars, runVars, msVars, nnVars, tbVars, orVars >>

----------------------------------------------------------------------------
(* Arithmetic helpers *)

Abs(x) == IF x < 0 THEN -x ELSE x

Max(a, b) == IF a >= b THEN a ELSE b

Min(a, b) == IF a <= b THEN a ELSE b

RECURSIVE SeqSum(_)
SeqSum(s) == IF s = << >> THEN 0 ELSE Head(s) + SeqSum(Tail(s))

(* Python round(): the integer nearest to n/d (d > 0), ties to the even one. *)
RoundHalfEven(n, d) ==
    LET q == n \div d
        r == n % d
    IN  IF 2 * r < d THEN q
        ELSE IF 2 * r > d THEN q + 1
        ELSE IF q % 2 = 0 THEN q ELSE q + 1

----------------------------------------------------------------------------
(* Bounds and input domains *)

MaxLen == 6

(* twelfths of a point: the mean of 3 or of 4 whole scores is exact *)
PadScale == 3 * 4

(* weights are in thousandths, window entries in twelfths *)
SumScale == 1000 * PadScale

ScoreValues == {-3, 0, 78, 92}

DemoScores == << 85, 92, 78, 88, 95 >>

ScoreLists ==
    UNION { [1..n -> ScoreValues] : n \in 0..MaxLen } \cup { DemoScores }

OldPrices == { 250000, 333334, 800000 }

Rounds == { 0, 22, 23, 24 }

PpPrices == { 0, 250000, 800000 }

MaxAvgTenths == 30

(* average_points, in tenths of a point *)
AvgPoints == (0..MaxAvgTenths) \cup { 955, 1000, 1205 }

----------------------------------------------------------------------------
(* AFLCompleteProcessor *)

(* self.magic_numbers *)
magic_numbers ==
    [ r \in 0..23 |->
        << 10250, 9840, 9783, 9801, 9719, 9747, 9869, 9881,
           9928, 9839, 9888, 9821, 9822, 9765, 9749, 9788,
           9875, 9756, 9748, 9817, 9755, 9734, 9740, 9736 >>[r + 1] ]

DefaultMagicNumber == 9736

(* self.magic_numbers.get(round_num, 9736) *)
MagicNumberBadDefault(r) ==
    IF r \in DOMAIN magic_numbers THEN magic_numbers[r] ELSE magic_numbers[0]

MagicNumber(r) ==
    IF r \in DOMAIN magic_numbers THEN magic_numbers[r] ELSE DefaultMagicNumber

(* valid_scores = [s for s in scores if s > 0] *)
IsValidScore(s) == s > 0

ValidScoresKeepZero(ss) == SelectSeq(ss, LAMBDA s : s >= 0)

ValidScores(ss) == SelectSeq(ss, IsValidScore)

(* The window built from a filtered list of at least 3 scores: padded with
   the mean of the list up to 5 entries, or cut to its first 5 entries.
   Entries are in twelfths of a point. *)
PadOrTruncatePadFirst(v) ==
    IF Len(v) < 5
    THEN [ i \in 1..5 |-> IF i <= Len(v) THEN PadScale * v[i]
                          ELSE PadScale * v[1] ]
    ELSE [ i \in 1..5 |-> PadScale * v[i] ]

PadOrTruncate(v) ==
    IF Len(v) < 5
    THEN LET avg_score == (PadScale * SeqSum(v)) \div Len(v)
         IN  [ i \in 1..5 |-> IF i <= Len(v) THEN PadScale * v[i] ELSE avg_score ]
    ELSE [ i \in 1..5 |-> PadScale * v[i] ]

(* w1..w5, in thousandths *)
Weights == << 83, 67, 50, 33, 17 >>

(* weighted_sum = w1*valid_scores[0] + ... + w5*valid_scores[4], in 1/12000 *)
WeightedSumReversed(w) ==
    Weights[5] * w[1] + Weights[4] * w[2] + Weights[3] * w[3]
        + Weights[2] * w[4] + Weights[1] * w[5]

WeightedSum(w) ==
    Weights[1] * w[1] + Weights[2] * w[2] + Weights[3] * w[3]
        + Weights[4] * w[4] + Weights[5] * w[5]

(* round(0.75 * old_price + magic_number * weighted_sum, 0), with
   weighted_sum in 1/12000.  The whole and the fractional parts are added
   separately to keep every intermediate value small. *)
NewPrice(op, m, ws) ==
    ((3 * op) \div 4) + m * (ws \div SumScale)
      + RoundHalfEven((SumScale \div 4) * ((3 * op) % 4) + m * (ws % SumScale),
                      SumScale)

(* round(price / average_points, 2), in hundredths; average_points in tenths *)
PricePerPointTruncated(p, ap) ==
    IF ap = 0 THEN 0 ELSE (1000 * p) \div ap

PricePerPoint(p, ap) ==
    IF ap = 0 THEN 0 ELSE RoundHalfEven(1000 * p, ap)

NoValue == << >>

(* The AFLCompleteProcessor with no call in progress. *)
PmIdle ==
    /\ pm_call = "none"
    /\ pm_pc = "idle"
    /\ old_price = 0
    /\ scores = << >>
    /\ round_num = 0
    /\ valid_scores = NoValue
    /\ weighted_sum = 0
    /\ magic_number = 0
    /\ new_price = 0
    /\ price = 0
    /\ average_points = 0
    /\ ppp_result = 0

(* The BreakEvenPricingProcessor with no call in progress. *)
BeIdle ==
    /\ be_call = "none"
    /\ be_pc = "idle"
    /\ current_price = 0
    /\ recent_scores = << >>
    /\ be_round_num = 0
    /\ padded_scores = NoValue
    /\ weighted_avg = 0
    /\ be_result = 0
    /\ actual_score = 0
    /\ breakeven_score = 0
    /\ score_difference = 0
    /\ base_change = 0
    /\ adjustment_factor = 0
    /\ adjusted_change = 0
    /\ protection_chance = 0
    /\ be_new_price = 0

(* A dict with no key. *)
EmptyDict == << >>

(* The attributes of the analyzer that only the other steps of
   run_full_analysis read or write, as constructed. *)
RunIdle ==
    /\ position_mapping = << >>
    /\ player_data = << >>
    /\ player_to_position = EmptyDict
    /\ player_dvp_ratings = << >>
    /\ best_worst_team_defense = EmptyDict
    /\ best_worst_player_matchups = [ best |-> << >>, worst |-> << >> ]

(* The MasterStatsConsolidator before it is constructed and run. *)
MsIdle ==
    /\ ms_pc = "idle"
    /\ master_stats = EmptyDict
    /\ base_players = << >>
    /\ metrics_data = << >>
    /\ value_data = << >>
    /\ dfs_files = << >>
    /\ df_cba = << >>
    /\ df_kickins = << >>
    /\ output_data = EmptyDict

(* normalize_name before it is called. *)
NnIdle ==
    /\ nn_pc = "idle"
    /\ nn_name = << >>
    /\ nn_normalized = << >>

(* test_breakeven_system before it is called. *)
TbIdle ==
    /\ tb_pc = "idle"
    /\ tb_data = << >>
    /\ tb_next = 0
    /\ test_results = << >>
    /\ tb_summary = EmptyDict

(* The DFSPipelineOrchestrator before run is called. *)
OrIdle ==
    /\ or_pc = "idle"
    /\ source_files = { }
    /\ raw_data_files = { }
    /\ archive_files = { }
    /\ progress_file = EmptyDict
    /\ consolidated = 0
    /\ loader_success = FALSE
    /\ archive_success = FALSE
    /\ or_result = FALSE

(* The DVPAnalyzer as constructed, before run_full_analysis. *)
DvpIdle ==
    /\ dvp_pc = "idle"
    /\ team_defensive_stats = << >>
    /\ team_dvp_ratings = EmptyDict
    /\ dvp_error = "none"
    /\ RunIdle

PmInit ==
    /\ MsIdle
    /\ NnIdle
    /\ TbIdle
    /\ OrIdle
    /\ BeIdle
    /\ DvpIdle
    /\ pm_pc = "called"
    /\ valid_scores = NoValue
    /\ weighted_sum = 0
    /\ magic_number = 0
    /\ new_price = 0
    /\ ppp_result = 0
    /\ \/ /\ pm_call = "calculate_price_change"
          /\ old_price \in OldPrices
          /\ scores \in ScoreLists
          /\ round_num \in Rounds
          /\ price = 0
          /\ average_points = 0
       \/ /\ pm_call = "calculate_price_per_point"
          /\ old_price = 0
          /\ scores = << >>
          /\ round_num = 0
          /\ price \in PpPrices
          /\ average_points \in AvgPoints

(* AFLCompleteProcessor.calculate_price_change *)
calculate_price_change ==
    /\ pm_call = "calculate_price_change"
    /\ pm_pc = "called"
    /\ pm_pc' = "returned"
    /\ LET filtered == ValidScores(scores)
       IN  IF Len(filtered) < 3
           THEN /\ valid_scores' = [ i \in 1..Len(filtered) |-> PadScale * filtered[i] ]
                /\ new_price' = old_price
                /\ UNCHANGED << weighted_sum, magic_number >>
           ELSE /\ valid_scores' = PadOrTruncate(filtered)
                /\ weighted_sum' = WeightedSum(valid_scores')
                /\ magic_number' = MagicNumber(round_num)
                /\ new_price' = NewPrice(old_price, magic_number', weighted_sum')
    /\ UNCHANGED << pm_call, old_price, scores, round_num,
                    price, average_points, ppp_result, beVars, dvpVars, runVars, msVars,
                    nnVars, tbVars, orVars >>

(* AFLCompleteProcessor.calculate_price_per_point *)
calculate_price_per_point ==
    /\ pm_call = "calculate_price_per_point"
    /\ pm_pc = "called"
    /\ pm_pc' = "returned"
    /\ ppp_result' = PricePerPoint(price, average_points)
    /\ UNCHANGED << pm_call, old_price, scores, round_num,
                    valid_scores, weighted_sum, magic_number, new_price,
                    price, average_points, beVars, dvpVars, runVars, msVars,
                    nnVars, tbVars, orVars >>

PmNext == calculate_price_change \/ calculate_price_per_point

SpecPrice == PmInit /\ [][PmNext]_vars

----------------------------------------------------------------------------
(* BreakEvenPricingProcessor.  Scores passed to and returned by it are in
   tenths of a point, adjustment factors in tenths. *)

(* self.round_weights *)
round_weights == << 83, 67, 50, 33, 17 >>

(* self.low_price_threshold *)
low_price_threshold == 300000

(* self.high_price_threshold *)
high_price_threshold == 1300000

(* self.price_per_point *)
price_per_point == 300

(* self.protection_threshold, in points *)
protection_threshold == 10

(* the limit under which a change within the threshold is suppressed *)
SmallChangeLimit == 15000

(* the minimum price floor *)
MinimumPrice == 200000

BePrices == { 150000, 205000, 250000, 299999, 300000, 800000,
              1300000, 1300001, 1500000 }

BeScorePrices == { 250000, 800000 }

BeRounds == { 23, 24 }

(* actual_score, in tenths of a point *)
ActualScores == { 0, 200, 500, 600, 695, 700, 705, 800, 801, 900, 1500 }

(* breakeven_score, in tenths of a point, as calculate_breakeven_score
   returns it (0 for a list of fewer than 3 scores) *)
BreakEvenScores == { 0, 654, 700, 705, 1000 }

(* while len(scores) < 5: scores.append(sum(scores) / len(scores));
   entries in twelfths of a point *)
RECURSIVE PadLoop(_)
PadLoop(s) ==
    IF Len(s) < 5 THEN PadLoop(Append(s, SeqSum(s) \div Len(s))) ELSE s

(* sum(score * weight for score, weight in zip(scores, self.round_weights)):
   zip stops after the 5 weights; in 1/12000 of a point *)
ZipWeightedSum(s) ==
    SeqSum([ i \in 1..Min(Len(s), Len(round_weights)) |-> s[i] * round_weights[i] ])

(* the tier factor, in tenths *)
AdjustmentFactorInclusive(cp, bc) ==
    IF cp <= low_price_threshold
    THEN (IF bc > 0 THEN 14 ELSE 7)
    ELSE IF cp >= high_price_threshold
    THEN (IF bc > 0 THEN 6 ELSE 12)
    ELSE 10

AdjustmentFactor(cp, bc) ==
    IF cp < low_price_threshold
    THEN (IF bc > 0 THEN 14 ELSE 7)
    ELSE IF cp > high_price_threshold
    THEN (IF bc > 0 THEN 6 ELSE 12)
    ELSE 10

(* abs(score_difference) <= self.protection_threshold; sd in tenths *)
WithinProtectionStrict(sd) == Abs(sd) < 10 * protection_threshold

WithinProtection(sd) == Abs(sd) <= 10 * protection_threshold

(* abs(adjusted_change) < 15000 *)
IsSmallChangeBelow1500(ac) == Abs(ac) < SmallChangeLimit \div 10

IsSmallChange(ac) == Abs(ac) < SmallChangeLimit

(* new_price = max(current_price + adjusted_change, 200000), rounded *)
FlooredPriceNoFloor(cp, ac) == cp + ac

FlooredPrice(cp, ac) == Max(cp + ac, MinimumPrice)

BeInit ==
    /\ MsIdle
    /\ NnIdle
    /\ TbIdle
    /\ OrIdle
    /\ PmIdle
    /\ DvpIdle
    /\ be_pc = "called"
    /\ padded_scores = NoValue
    /\ weighted_avg = 0
    /\ be_result = 0
    /\ score_difference = 0
    /\ base_change = 0
    /\ adjustment_factor = 0
    /\ adjusted_change = 0
    /\ protection_chance = 0
    /\ be_new_price = 0
    /\ \/ /\ be_call = "calculate_breakeven_score"
          /\ current_price \in BeScorePrices
          /\ recent_scores \in ScoreLists
          /\ be_round_num \in BeRounds
          /\ actual_score = 0
          /\ breakeven_score = 0
       \/ /\ be_call = "calculate_price_change_from_breakeven"
          /\ current_price \in BePrices
          /\ recent_scores = << >>
          /\ be_round_num = 0
          /\ actual_score \in ActualScores
          /\ breakeven_score \in BreakEvenScores

(* BreakEvenPricingProcessor.calculate_breakeven_score.  magic_number,
   price_factor and adjusted_magic are computed and never read: the result
   depends on recent_scores alone. *)
calculate_breakeven_score ==
    /\ be_call = "calculate_breakeven_score"
    /\ be_pc = "called"
    /\ be_pc' = "returned"
    /\ IF Len(recent_scores) < 3
       THEN /\ be_result' = 0
            /\ UNCHANGED << padded_scores, weighted_avg >>
       ELSE /\ padded_scores' =
                   PadLoop([ i \in 1..Len(recent_scores) |-> PadScale * recent_scores[i] ])
            /\ weighted_avg' = ZipWeightedSum(padded_scores')
            /\ be_result' = RoundHalfEven(weighted_avg', SumScale \div 10)
    /\ UNCHANGED << be_call, current_price, recent_scores, be_round_num,
                    actual_score, breakeven_score,
                    score_difference, base_change, adjustment_factor,
                    adjusted_change, protection_chance, be_new_price, pmVars, dvpVars, runVars, msVars,
                    nnVars, tbVars, orVars >>

(* BreakEvenPricingProcessor.calculate_price_change_from_breakeven.
   score_difference is in tenths of a point, so base_change =
   score_difference * 300 / 10 and adjusted_change = base_change * factor / 10
   = score_difference * 3 * factor are whole numbers and the final round()
   leaves the price as it is. *)
calculate_price_change_from_breakeven ==
    /\ be_call = "calculate_price_change_from_breakeven"
    /\ be_pc = "called"
    /\ be_pc' = "returned"
    /\ score_difference' = actual_score - breakeven_score
    /\ base_change' = (score_difference' * price_per_point) \div 10
    /\ adjustment_factor' = AdjustmentFactor(current_price, base_change')
    /\ LET scaled == (base_change' * adjustment_factor') \div 10
       IN  IF WithinProtection(score_difference')
           THEN /\ protection_chance' = 4
                /\ adjusted_change' = IF IsSmallChange(scaled) THEN 0 ELSE scaled
           ELSE /\ protection_chance' = protection_chance
                /\ adjusted_change' = scaled
    /\ be_new_price' = FlooredPrice(current_price, adjusted_change')
    /\ UNCHANGED << be_call, current_price, recent_scores, be_round_num,
                    padded_scores, weighted_avg, be_result,
                    actual_score, breakeven_score, pmVars, dvpVars, runVars, msVars,
                    nnVars, tbVars, orVars >>

BeNext == calculate_breakeven_score \/ calculate_price_change_from_breakeven

SpecBreakEven == BeInit /\ [][BeNext]_vars

----------------------------------------------------------------------------
(* DVPAnalyzer.create_dvp_team_ratings.  team_defensive_stats is a dict in
   insertion order: a sequence of [team, stats], stats mapping each of the 4
   position groups to [avg_points_allowed, sample_size].  An average is
   held as a whole number of 1/AvgScale points, which is exact for the mean
   of up to 6 whole-point samples. *)

MaxTeams == 5

AvgScale == 3 * 4 * 5

Positions == << "Forward", "Midfielder", "Defender", "Ruck" >>

PositionSet == { "Forward", "Midfielder", "Defender", "Ruck" }

TeamName(i) == "T" \o ToString(i)

NoSamples == [ avg_points_allowed |-> 0, sample_size |-> 0 ]

(* What calculate_team_defense_ratings can record for a team's Forward
   group: no sample, 2 samples, or 3 samples at one of four averages. *)
ForwardStats ==
    { NoSamples, [ avg_points_allowed |-> 70 * AvgScale, sample_size |-> 2 ] }
      \cup { [ avg_points_allowed |-> a * AvgScale, sample_size |-> 3 ] :
                a \in { 60, 70, 80, 90 } }

(* The Midfielder group of the i-th team: no team has samples, only the
   first team is eligible, or every team is. *)
MidfielderProfiles == { "none", "first", "all" }

MidfielderStats(profile, i) ==
    IF profile = "all" \/ (profile = "first" /\ i = 1)
    THEN [ avg_points_allowed |-> (100 - i) * AvgScale, sample_size |-> 3 ]
    ELSE NoSamples

(* d with key k set to v *)
Put(d, k, v) == [ x \in (DOMAIN d) \cup { k } |-> IF x = k THEN v ELSE d[x] ]

(* team_avgs: (team, avg_points_allowed) of the teams with sample_size >= 3 *)
TeamAvgs(stats, position) ==
    LET eligible == SelectSeq(stats, LAMBDA e : e.stats[position].sample_size >= 3)
    IN  [ i \in 1..Len(eligible) |->
            << eligible[i].team, eligible[i].stats[position].avg_points_allowed >> ]

(* team_avgs.sort(key=lambda x: x[1]): ascending, stable *)
RECURSIVE InsertByAvg(_, _)
InsertByAvg(x, s) ==
    IF s = << >> THEN << x >>
    ELSE IF x[2] < Head(s)[2] THEN << x >> \o s
    ELSE << Head(s) >> \o InsertByAvg(x, Tail(s))

RECURSIVE SortByAvg(_)
SortByAvg(s) ==
    IF s = << >> THEN << >>
    ELSE InsertByAvg(s[Len(s)], SortByAvg(SubSeq(s, 1, Len(s) - 1)))

(* max(1, min(10, int((i / (len(team_avgs) - 1)) * 9) + 1)), for n >= 2;
   int() truncates, and the quotient is never negative *)
RatingRounded(i, n) == Max(1, Min(10, RoundHalfEven(9 * i, n - 1) + 1))

Rating(i, n) == Max(1, Min(10, ((9 * i) \div (n - 1)) + 1))

(* for i, (team, avg_points) in enumerate(team_avgs): ..., from index i on;
   called with at least 2 teams *)
RECURSIVE AssignRatings(_, _, _, _)
AssignRatings(ratings, sorted, position, i) ==
    IF i >= Len(sorted) THEN ratings
    ELSE LET team == sorted[i + 1][1]
             mine == IF team \in DOMAIN ratings THEN ratings[team] ELSE EmptyDict
             entry == [ rating |-> Rating(i, Len(sorted)),
                        avg_points_allowed |-> sorted[i + 1][2],
                        rank |-> i + 1 ]
         IN  AssignRatings(Put(ratings, team, Put(mine, position, entry)),
                           sorted, position, i + 1)

(* for position in ['Forward', 'Midfielder', 'Defender', 'Ruck']: ..., from
   the k-th position on.  A group with no eligible team is skipped; a group
   with exactly one divides by len(team_avgs) - 1 = 0 at its first team,
   after that team's dict was created, and the ZeroDivisionError ends the
   method. *)
RECURSIVE RankFrom(_, _, _)
RankFrom(ratings, stats, k) ==
    IF k > Len(Positions) THEN [ ratings |-> ratings, error |-> "none" ]
    ELSE LET team_avgs == SortByAvg(TeamAvgs(stats, Positions[k]))
         IN  IF team_avgs = << >> THEN RankFrom(ratings, stats, k + 1)
             ELSE IF Len(team_avgs) = 1
             THEN [ ratings |-> IF team_avgs[1][1] \in DOMAIN ratings THEN ratings
                                ELSE Put(ratings, team_avgs[1][1], EmptyDict),
                    error |-> "ZeroDivisionError" ]
             ELSE RankFrom(AssignRatings(ratings, team_avgs, Positions[k], 0),
                           stats, k + 1)

(* The analyzer after calculate_team_defense_ratings: every team recorded
   has a sample in at least one group. *)
DvpInit ==
    /\ MsIdle
    /\ NnIdle
    /\ TbIdle
    /\ OrIdle
    /\ PmIdle
    /\ BeIdle
    /\ RunIdle
    /\ dvp_pc = "aggregated"
    /\ team_dvp_ratings = EmptyDict
    /\ dvp_error = "none"
    /\ \E n \in 0..MaxTeams, profile \in MidfielderProfiles :
         \E fwd \in [ 1..n -> ForwardStats ] :
            /\ ~ \E i \in 1..n :
                   /\ fwd[i].sample_size = 0
                   /\ MidfielderStats(profile, i).sample_size = 0
            /\ team_defensive_stats =
                 [ i \in 1..n |->
                     [ team |-> TeamName(i),
                       stats |-> [ p \in PositionSet |->
                                     IF p = "Forward" THEN fwd[i]
                                     ELSE IF p = "Midfielder"
                                     THEN MidfielderStats(profile, i)
                                     ELSE NoSamples ] ] ]

(* DVPAnalyzer.create_dvp_team_ratings *)
create_dvp_team_ratings ==
    /\ dvp_pc = "aggregated"
    /\ LET done == RankFrom(EmptyDict, team_defensive_stats, 1)
       IN  /\ team_dvp_ratings' = done.ratings
           /\ dvp_error' = done.error
           /\ dvp_pc' = IF done.error = "none" THEN "ranked" ELSE "raised"
    /\ UNCHANGED << team_defensive_stats, pmVars, beVars, runVars, msVars,
                    nnVars, tbVars, orVars >>

DvpNext == create_dvp_team_ratings

SpecDVP == DvpInit /\ [][DvpNext]_vars

(***************************************************************************)
(* DVPAnalyzer.run_full_analysis: the steps before and after               *)
(* create_dvp_team_ratings                                                 *)
(***************************************************************************)

(* player_data is held as the sequence of player rows in the order the
   nested loops over self.player_data visit them; a row is
   [opponent, PLAYER, AVG, GM, cells].  AVG is in whole points.  cells are
   the row's other columns in key order: season tells whether the key
   starts with '2025R', '2024R', '2023R' or '2022R'; kind is "num" for a
   value float() parses, "empty" for '' and "text" for a value float()
   rejects.  An opponent without a 'players' list has no row.
   position_mapping is the sequence of (position type, player names) in
   iteration order, the names as split from the '<br>' separated string
   and stripped.  player_dvp_ratings is the nested dict flattened to
   [player, opponent, data] in iteration order; a rating is held in tenths
   and a consistency in hundredths. *)

(* self.position_groups, in insertion order *)
position_groups ==
    << [ group |-> "Forward", types |-> { "Key Forward", "Small/Medium Forward" } ],
       [ group |-> "Midfielder", types |-> { "Inside Midfielder", "Wing/Attacking Defender" } ],
       [ group |-> "Defender", types |-> { "Designated Kicker", "General Defender" } ],
       [ group |-> "Ruck", types |-> { "Ruck" } ] >>

NoGroup == "None"

(* the first group whose types list the position type, None when no group does *)
PositionGroupOf(position_type) ==
    LET hits == { k \in DOMAIN position_groups :
                    position_type \in position_groups[k].types }
    IN  IF hits = { } THEN NoGroup
        ELSE position_groups[CHOOSE k \in hits : \A j \in hits : k <= j].group

(* for player in player_names: ... if player: player_to_position[player] = group *)
RECURSIVE MapPlayers(_, _, _)
MapPlayers(map, player_names, position_group) ==
    IF player_names = << >> THEN map
    ELSE MapPlayers(IF Head(player_names) # ""
                    THEN Put(map, Head(player_names), position_group)
                    ELSE map,
                    Tail(player_names), position_group)

(* for position_type, players_str in positions.items(): ... *)
RECURSIVE GroupFrom(_, _)
GroupFrom(map, entries) ==
    IF entries = << >> THEN map
    ELSE LET position_group == PositionGroupOf(Head(entries).position_type)
         IN  GroupFrom(IF position_group # NoGroup
                       THEN MapPlayers(map, Head(entries).player_names, position_group)
                       ELSE map,
                       Tail(entries))

(* not (not avg_points or not games_played or games_played < 2), and
   player_to_position.get(player_name) is a group *)
ContributesOneGame(player, p2p) ==
    /\ player.AVG # 0
    /\ player.GM # 0
    /\ ~ (player.GM < 1)
    /\ player.PLAYER \in DOMAIN p2p

Contributes(player, p2p) ==
    /\ player.AVG # 0
    /\ player.GM # 0
    /\ ~ (player.GM < 2)
    /\ player.PLAYER \in DOMAIN p2p

(* team_position_stats[opponent][position].append(avg_points), the
   defaultdict held in insertion order of its teams *)
AddSample(tps, team, position, avg_points) ==
    IF \E k \in DOMAIN tps : tps[k].team = team
    THEN [ k \in DOMAIN tps |->
             IF tps[k].team = team
             THEN [ tps[k] EXCEPT !.lists[position] = Append(@, avg_points) ]
             ELSE tps[k] ]
    ELSE Append(tps, [ team |-> team,
                       lists |-> [ p \in PositionSet |->
                                     IF p = position THEN << avg_points >> ELSE << >> ] ])

(* for player in opponent_data['players']: ..., over all rows *)
RECURSIVE AggregateFirstSample(_, _, _)
AggregateFirstSample(tps, rows, p2p) ==
    IF rows = << >> THEN tps
    ELSE LET player == Head(rows)
         IN  IF Contributes(player, p2p)
             THEN AddSample(tps, player.opponent, p2p[player.PLAYER], player.AVG)
             ELSE AggregateFirstSample(tps, Tail(rows), p2p)

RECURSIVE Aggregate(_, _, _)
Aggregate(tps, rows, p2p) ==
    IF rows = << >> THEN tps
    ELSE LET player == Head(rows)
         IN  Aggregate(IF Contributes(player, p2p)
                       THEN AddSample(tps, player.opponent, p2p[player.PLAYER], player.AVG)
                       ELSE tps,
                       Tail(rows), p2p)

(* sum(points_list) / len(points_list) and len(points_list), or 0 and 0 *)
PairStatsZeroBelowThree(points_list) ==
    IF Len(points_list) >= 3
    THEN [ avg_points_allowed |-> (SeqSum(points_list) * AvgScale) \div Len(points_list),
           sample_size |-> Len(points_list) ]
    ELSE [ avg_points_allowed |-> 0, sample_size |-> 0 ]

PairStats(points_list) ==
    IF points_list # << >>
    THEN [ avg_points_allowed |-> (SeqSum(points_list) * AvgScale) \div Len(points_list),
           sample_size |-> Len(points_list) ]
    ELSE [ avg_points_allowed |-> 0, sample_size |-> 0 ]

(* for team in team_position_stats: for position in [...]: ... *)
DefensiveStats(tps) ==
    [ k \in DOMAIN tps |->
        [ team |-> tps[k].team,
          stats |-> [ p \in PositionSet |-> PairStats(tps[k].lists[p]) ] ] ]

(* game_scores: the season columns that are not '' and that float() parses *)
RECURSIVE GameScores(_)
GameScores(cells) ==
    IF cells = << >> THEN << >>
    ELSE (IF Head(cells).season /\ Head(cells).kind # "empty" /\ Head(cells).kind # "text"
          THEN << Head(cells).value >> ELSE << >>) \o GameScores(Tail(cells))

RECURSIVE SeqSumSquares(_)
SeqSumSquares(s) == IF s = << >> THEN 0 ELSE Head(s) * Head(s) + SeqSumSquares(Tail(s))

RECURSIVE SeqSumAbs(_)
SeqSumAbs(s) == IF s = << >> THEN 0 ELSE Abs(Head(s)) + SeqSumAbs(Tail(s))

(* len(game_scores) * np.std(game_scores): the root of N * sum(x^2) - sum(x)^2,
   for the series whose population deviation is rational *)
ScaledDeviation(game_scores) ==
    LET d == Len(game_scores) * SeqSumSquares(game_scores)
               - SeqSum(game_scores) * SeqSum(game_scores)
    IN  CHOOSE r \in 0..(Len(game_scores) * SeqSumAbs(game_scores)) : r * r = d

(* consistency_score as << numerator, denominator >>: 0 unless there are 2
   scores or more; then max(0, 1 - cv / 0.5) with cv = std / mean when
   mean > 0 and cv = 0 otherwise *)
ConsistencyScoreDefaultOne(game_scores) ==
    IF Len(game_scores) < 2 THEN << 1, 1 >>
    ELSE LET total == SeqSum(game_scores)
             dev == ScaledDeviation(game_scores)
         IN  IF ~ (total > 0) THEN << 1, 1 >>
             ELSE IF 2 * dev > total THEN << 0, 1 >>
             ELSE << total - 2 * dev, total >>

ConsistencyScore(game_scores) ==
    IF Len(game_scores) < 2 THEN << 0, 1 >>
    ELSE LET total == SeqSum(game_scores)
             dev == ScaledDeviation(game_scores)
         IN  IF ~ (total > 0) THEN << 1, 1 >>
             ELSE IF 2 * dev > total THEN << 0, 1 >>
             ELSE << total - 2 * dev, total >>

(* min(10, max(1, avg_points / 10)), in tenths *)
BaseRatingTenths(avg_points) == Min(100, Max(10, avg_points))

(* min(1.2, games_played / 5) if games_played > 0 else 0.5, in tenths *)
SampleAdjustmentTenths(games_played) ==
    IF games_played > 0 THEN Min(12, 2 * games_played) ELSE 5

(* round(max(1, min(10, base_rating * sample_adjustment *
   (0.8 + consistency_score * 0.4))), 1) in tenths; the clamp bounds are
   whole tenths, so clamping before or after the rounding is the same *)
FinalRatingTenthsUnclamped(avg_points, games_played, consistency) ==
    RoundHalfEven(BaseRatingTenths(avg_points) * SampleAdjustmentTenths(games_played)
                    * (8 * consistency[2] + 4 * consistency[1]),
                  100 * consistency[2])

FinalRatingTenths(avg_points, games_played, consistency) ==
    Min(100, Max(10,
        RoundHalfEven(BaseRatingTenths(avg_points) * SampleAdjustmentTenths(games_played)
                        * (8 * consistency[2] + 4 * consistency[1]),
                      100 * consistency[2])))

(* the dict stored in player_dvp_ratings[player_name][opponent] *)
PlayerMatchup(player, p2p) ==
    LET consistency_score == ConsistencyScore(GameScores(player.cells))
    IN  [ rating |-> FinalRatingTenths(player.AVG, player.GM, consistency_score),
          avg_points |-> player.AVG,
          games_played |-> player.GM,
          consistency |-> RoundHalfEven(100 * consistency_score[1], consistency_score[2]),
          position |-> IF player.PLAYER \in DOMAIN p2p
                       THEN p2p[player.PLAYER] ELSE "Unknown" ]

(* player_dvp_ratings[player][opponent] = data: an existing key keeps its
   place, a new opponent goes last in the player's dict, a new player last *)
SetMatchup(ratings, player, opponent, data) ==
    LET entry == [ player |-> player, opponent |-> opponent, data |-> data ]
        same == { k \in DOMAIN ratings :
                    ratings[k].player = player /\ ratings[k].opponent = opponent }
        mine == { k \in DOMAIN ratings : ratings[k].player = player }
    IN  IF same # { }
        THEN [ k \in DOMAIN ratings |-> IF k \in same THEN entry ELSE ratings[k] ]
        ELSE IF mine # { }
        THEN LET last == CHOOSE k \in mine : \A j \in mine : j <= k
             IN  SubSeq(ratings, 1, last) \o << entry >>
                   \o SubSeq(ratings, last + 1, Len(ratings))
        ELSE Append(ratings, entry)

(* for player in opponent_data['players']: ..., over all rows *)
RECURSIVE RateFrom(_, _, _)
RateFrom(ratings, rows, p2p) ==
    IF rows = << >> THEN ratings
    ELSE LET player == Head(rows)
         IN  IF player.AVG = 0 \/ player.PLAYER = ""
             THEN RateFrom(ratings, Tail(rows), p2p)
             ELSE RateFrom(SetMatchup(ratings, player.PLAYER, player.opponent,
                                      PlayerMatchup(player, p2p)),
                           Tail(rows), p2p)

FirstN(s, n) == SubSeq(s, 1, Min(n, Len(s)))

LastN(s, n) == SubSeq(s, Max(1, Len(s) - n + 1), Len(s))

(* teams_with_ratings.sort(key=lambda x: x[1]['rating']); the ratings of
   one position group are distinct for up to 10 ranked teams *)
RECURSIVE SortTeamsByRating(_, _, _)
SortTeamsByRating(ratings, teams, position) ==
    IF teams = { } THEN << >>
    ELSE LET t == CHOOSE t \in teams : \A u \in teams :
                    ratings[t][position].rating <= ratings[u][position].rating
         IN  << << t, ratings[t][position] >> >>
               \o SortTeamsByRating(ratings, teams \ { t }, position)

(* self.best_worst_team_defense *)
BestWorstTeamDefense(ratings) ==
    LET with_ratings(p) == { t \in DOMAIN ratings : p \in DOMAIN ratings[t] }
    IN  [ p \in { q \in PositionSet : with_ratings(q) # { } } |->
            LET sorted == SortTeamsByRating(ratings, with_ratings(p), p)
            IN  [ best_defense |-> FirstN(sorted, 3),
                  worst_defense |-> LastN(sorted, 3) ] ]

(* .sort(key=lambda x: x[2]['rating']): ascending, stable *)
RECURSIVE InsertByRating(_, _)
InsertByRating(x, s) ==
    IF s = << >> THEN << x >>
    ELSE IF x.data.rating < Head(s).data.rating THEN << x >> \o s
    ELSE << Head(s) >> \o InsertByRating(x, Tail(s))

RECURSIVE SortByRating(_)
SortByRating(s) ==
    IF s = << >> THEN << >>
    ELSE InsertByRating(s[Len(s)], SortByRating(SubSeq(s, 1, Len(s) - 1)))

(* .sort(key=lambda x: x[2]['rating'], reverse=True): descending, and equal
   ratings keep their order *)
RECURSIVE InsertByRatingReverseUnstable(_, _)
InsertByRatingReverseUnstable(x, s) ==
    IF s = << >> THEN << x >>
    ELSE IF x.data.rating >= Head(s).data.rating THEN << x >> \o s
    ELSE << Head(s) >> \o InsertByRatingReverseUnstable(x, Tail(s))

RECURSIVE InsertByRatingReverse(_, _)
InsertByRatingReverse(x, s) ==
    IF s = << >> THEN << x >>
    ELSE IF x.data.rating > Head(s).data.rating THEN << x >> \o s
    ELSE << Head(s) >> \o InsertByRatingReverse(x, Tail(s))

RECURSIVE SortByRatingReverse(_)
SortByRatingReverse(s) ==
    IF s = << >> THEN << >>
    ELSE InsertByRatingReverse(s[Len(s)], SortByRatingReverse(SubSeq(s, 1, Len(s) - 1)))

(* the matchups with games_played >= 3, in iteration order *)
MinimumSample(ratings) == SelectSeq(ratings, LAMBDA e : e.data.games_played >= 3)

(* The loaded data.  Three players Q1..Q3 listed as Key Forward have met
   none, one or two of the teams T1 and T2; players P1 and P2 each have at
   most one row against each team. *)
Num(v) == [ season |-> TRUE, kind |-> "num", value |-> v ]

EmptyCell == [ season |-> TRUE, kind |-> "empty", value |-> 0 ]

TextCell == [ season |-> TRUE, kind |-> "text", value |-> 0 ]

OtherColumn(v) == [ season |-> FALSE, kind |-> "num", value |-> v ]

AwayProfiles ==
    { [ AVG |-> 60, GM |-> 3, cells |-> << Num(50), Num(70) >> ],
      [ AVG |-> 150, GM |-> 7, cells |-> << Num(0), Num(0) >> ],
      [ AVG |-> 80, GM |-> 5, cells |-> << Num(20), EmptyCell, Num(140) >> ] }

RowProfiles ==
    AwayProfiles \cup
    { [ AVG |-> 90, GM |-> 2, cells |-> << Num(90), OtherColumn(45) >> ],
      [ AVG |-> 0, GM |-> 4, cells |-> << Num(80), Num(80) >> ],
      [ AVG |-> -5, GM |-> 0, cells |-> << EmptyCell, TextCell >> ],
      [ AVG |-> 75, GM |-> 1, cells |-> << Num(-4), Num(2) >> ] }

(* no row or one row *)
Slots(profiles) == { << >> } \cup { << p >> : p \in profiles }

RowsOf(opponent, name, slot) ==
    [ i \in 1..Len(slot) |->
        [ opponent |-> opponent, PLAYER |-> name,
          AVG |-> slot[i].AVG, GM |-> slot[i].GM, cells |-> slot[i].cells ] ]

BaseOpponents == { 0, 1, 2 }

BaseRows(faced) ==
    LET against(i) ==
          << [ opponent |-> TeamName(i), PLAYER |-> "Q1", AVG |-> 70, GM |-> 3,
               cells |-> << Num(80), Num(80) >> ],
             [ opponent |-> TeamName(i), PLAYER |-> "Q2", AVG |-> 80, GM |-> 3,
               cells |-> << Num(80), Num(80) >> ],
             [ opponent |-> TeamName(i), PLAYER |-> "Q3", AVG |-> 90, GM |-> 4,
               cells |-> << Num(80), Num(80) >> ] >>
    IN  IF faced = 0 THEN << >>
        ELSE IF faced = 1 THEN against(1)
        ELSE against(1) \o against(2)

PositionMappings ==
    { << [ position_type |-> "Key Forward",
           player_names |-> << "Q1", "Q2", "", "Q3", "P1", "P2" >> ] >>,
      << [ position_type |-> "Key Forward", player_names |-> << "Q1", "Q2", "Q3", "P1" >> ],
         [ position_type |-> "Inside Midfielder", player_names |-> << "P2" >> ] >>,
      << [ position_type |-> "Key Forward", player_names |-> << "Q1", "Q2", "Q3", "P2" >> ],
         [ position_type |-> "Utility", player_names |-> << "P1" >> ] >>,
      << [ position_type |-> "Key Forward", player_names |-> << "Q1", "Q2", "Q3", "P1" >> ],
         [ position_type |-> "Ruck", player_names |-> << "P1" >> ],
         [ position_type |-> "Small/Medium Forward", player_names |-> << "P2" >> ] >> }

(* The analyzer after load_all_data. *)
RunInit ==
    /\ MsIdle
    /\ NnIdle
    /\ TbIdle
    /\ OrIdle
    /\ PmIdle
    /\ BeIdle
    /\ dvp_pc = "loaded"
    /\ team_defensive_stats = << >>
    /\ team_dvp_ratings = EmptyDict
    /\ dvp_error = "none"
    /\ player_to_position = EmptyDict
    /\ player_dvp_ratings = << >>
    /\ best_worst_team_defense = EmptyDict
    /\ best_worst_player_matchups = [ best |-> << >>, worst |-> << >> ]
    /\ position_mapping \in PositionMappings
    /\ \E faced \in BaseOpponents :
         \E a \in Slots(RowProfiles), b \in Slots(RowProfiles),
            c \in Slots(AwayProfiles), d \in Slots(AwayProfiles) :
            player_data = BaseRows(faced)
                            \o RowsOf(TeamName(1), "P1", a) \o RowsOf(TeamName(1), "P2", b)
                            \o RowsOf(TeamName(2), "P1", c) \o RowsOf(TeamName(2), "P2", d)

(* DVPAnalyzer.create_position_groups *)
create_position_groups ==
    /\ dvp_pc = "loaded"
    /\ player_to_position' = GroupFrom(EmptyDict, position_mapping)
    /\ dvp_pc' = "grouped"
    /\ UNCHANGED << team_defensive_stats, team_dvp_ratings, dvp_error,
                    position_mapping, player_data, player_dvp_ratings,
                    best_worst_team_defense, best_worst_player_matchups,
                    pmVars, beVars, msVars,
                    nnVars, tbVars, orVars >>

(* DVPAnalyzer.calculate_team_defense_ratings *)
calculate_team_defense_ratings ==
    /\ dvp_pc = "grouped"
    /\ team_defensive_stats' =
         DefensiveStats(Aggregate(<< >>, player_data, player_to_position))
    /\ dvp_pc' = "aggregated"
    /\ UNCHANGED << team_dvp_ratings, dvp_error, runVars, pmVars, beVars, msVars,
                    nnVars, tbVars, orVars >>

(* DVPAnalyzer.calculate_player_dvp_ratings; run_full_analysis reaches it
   when create_dvp_team_ratings has returned *)
calculate_player_dvp_ratings ==
    /\ dvp_pc = "ranked"
    /\ player_dvp_ratings' = RateFrom(<< >>, player_data, player_to_position)
    /\ dvp_pc' = "rated"
    /\ UNCHANGED << team_defensive_stats, team_dvp_ratings, dvp_error,
                    position_mapping, player_data, player_to_position,
                    best_worst_team_defense, best_worst_player_matchups,
                    pmVars, beVars, msVars,
                    nnVars, tbVars, orVars >>

(* DVPAnalyzer.find_best_worst_matchups *)
find_best_worst_matchups ==
    /\ dvp_pc = "rated"
    /\ best_worst_team_defense' = BestWorstTeamDefense(team_dvp_ratings)
    /\ best_worst_player_matchups' =
         [ best |-> FirstN(SortByRatingReverse(MinimumSample(player_dvp_ratings)), 20),
           worst |-> FirstN(SortByRating(MinimumSample(player_dvp_ratings)), 20) ]
    /\ dvp_pc' = "matched"
    /\ UNCHANGED << team_defensive_stats, team_dvp_ratings, dvp_error,
                    position_mapping, player_data, player_to_position,
                    player_dvp_ratings, pmVars, beVars, msVars,
                    nnVars, tbVars, orVars >>

RunNext ==
    \/ create_position_groups
    \/ calculate_team_defense_ratings
    \/ create_dvp_team_ratings
    \/ calculate_player_dvp_ratings
    \/ find_best_worst_matchups

SpecDVPRun == RunInit /\ [][RunNext]_vars

(***************************************************************************)
(* MasterStatsConsolidator (src/scrapers/create_master_stats.py)           *)
(***************************************************************************)

(* master_stats maps a normalized name to a profile.  A profile holds the
   fields that the passes of run_consolidation read or write; the other
   fields keep the value load_base_player_data gives them.  Averages,
   percentages and rates are held in hundredths, price and games_played in
   whole units.  A value of a source record is [kind, value]: kind is
   "absent" when the record has no such key, "num" for a number, "null"
   for a JSON null and "text" for a string that is no number; float()
   rejects the last two.  actual_average is no key of a profile until
   merge_fantasy_value_data sets it and is read with default 0: it is held
   as 0 until then.  The source files do not change during the run. *)

Absent == [ kind |-> "absent", value |-> 0 ]

Null == [ kind |-> "null", value |-> 0 ]

Number(v) == [ kind |-> "num", value |-> v ]

Text(s) == [ kind |-> "text", value |-> s ]

(* record.get(key, default) *)
Get(v, default) == IF v.kind = "absent" THEN Number(default) ELSE v

(* float(v) raises TypeError or ValueError *)
FloatRaises(v) == v.kind \in { "null", "text" }

(* normalize_name on the names of the source files of the model *)
NormalizeName(name) ==
    CASE name = "Tom Smith" -> "tom smith"
      [] name = "tom smith" -> "tom smith"
      [] name = "Max Gawn" -> "max gawn"
      [] name = "Sam Unlisted" -> "sam unlisted"
      [] name = "CD_I1001" -> "1001"
      [] OTHER -> ""

(* filename.startswith('CD_') on the file names of the model *)
StartsWithCD(filename) == filename = "CD_I1001"

(* the profile load_base_player_data builds for a record of player_data.json *)
BaseProfile(player) ==
    [ name |-> player.name,
      average_points |-> Get(player.avg, 0).value,
      break_even |-> Get(player.breakeven, 0).value,
      price |-> Get(player.price, 0).value,
      games_played |-> Get(player.games, 0).value,
      kicks |-> 0, handballs |-> 0, disposals |-> 0, marks |-> 0, tackles |-> 0,
      free_kicks_for |-> 0, free_kicks_against |-> 0, hitouts |-> 0,
      cba_percentage |-> 0, kick_ins |-> 0, time_on_ground |-> 0,
      last_score |-> 0, last_3_average |-> 0, last_5_average |-> 0,
      total_points |-> 0, high_score |-> 0, consistency_rating |-> 0,
      points_per_minute |-> 0, ownership_percentage |-> 0,
      value_rating |-> "", value_index |-> 0, actual_average |-> 0,
      data_sources |-> << "player_data.json" >> ]

(* for player in players: ...; a record without a name is skipped *)
RECURSIVE LoadBase(_, _)
LoadBase(stats, players) ==
    IF players = << >> THEN stats
    ELSE LoadBase(IF Head(players).name = "" THEN stats
                  ELSE Put(stats, NormalizeName(Head(players).name),
                           BaseProfile(Head(players))),
                  Tail(players))

(* for player in metrics_data: ...; an exception ends the pass *)
RECURSIVE MergeMetrics(_, _)
MergeMetrics(stats, records) ==
    IF records = << >> THEN stats
    ELSE LET player == Head(records)
             name == NormalizeName(player.name)
         IN  IF name \notin DOMAIN stats THEN MergeMetrics(stats, Tail(records))
             ELSE IF \/ FloatRaises(Get(player.own, 0))
                     \/ FloatRaises(Get(player.con, 0))
                     \/ FloatRaises(Get(player.ppm, 0))
             THEN stats
             ELSE MergeMetrics(
                    [ stats EXCEPT ![name] =
                        [ @ EXCEPT !.ownership_percentage = Get(player.own, 0).value * 100,
                                   !.consistency_rating = Get(player.con, 0).value * 100,
                                   !.points_per_minute = Get(player.ppm, 0).value,
                                   !.data_sources = Append(@, "fantasy_metrics") ] ],
                    Tail(records))

(* for player in value_data: ...; an exception ends the pass *)
RECURSIVE MergeValueAddsPlayer(_, _)
MergeValueAddsPlayer(stats, records) ==
    IF records = << >> THEN stats
    ELSE LET player == Head(records)
             name == NormalizeName(player.name)
         IN  IF name \notin DOMAIN stats
             THEN MergeValueAddsPlayer(
                    Put(stats, name,
                        BaseProfile([ name |-> player.name, avg |-> Absent,
                                      breakeven |-> Absent, price |-> Absent,
                                      games |-> Absent ])),
                    Tail(records))
             ELSE IF \/ FloatRaises(Get(player.actual_avg, 0))
                     \/ FloatRaises(Get(player.value_index, 0))
             THEN stats
             ELSE MergeValueAddsPlayer(
                    [ stats EXCEPT ![name] =
                        [ @ EXCEPT !.actual_average = Get(player.actual_avg, 0).value,
                                   !.value_index = Get(player.value_index, 0).value,
                                   !.value_rating =
                                       IF player.value_rating.kind = "absent"
                                       THEN "Unknown" ELSE player.value_rating.value,
                                   !.data_sources = Append(@, "fantasy_value") ] ],
                    Tail(records))

RECURSIVE MergeValue(_, _)
MergeValue(stats, records) ==
    IF records = << >> THEN stats
    ELSE LET player == Head(records)
             name == NormalizeName(player.name)
         IN  IF name \notin DOMAIN stats THEN MergeValue(stats, Tail(records))
             ELSE IF \/ FloatRaises(Get(player.actual_avg, 0))
                     \/ FloatRaises(Get(player.value_index, 0))
             THEN stats
             ELSE MergeValue(
                    [ stats EXCEPT ![name] =
                        [ @ EXCEPT !.actual_average = Get(player.actual_avg, 0).value,
                                   !.value_index = Get(player.value_index, 0).value,
                                   !.value_rating =
                                       IF player.value_rating.kind = "absent"
                                       THEN "Unknown" ELSE player.value_rating.value,
                                   !.data_sources = Append(@, "fantasy_value") ] ],
                    Tail(records))

(* the keys of a career year that are read with float(d.get(k, 0)) *)
DfsNumbers == { "K", "H", "M", "T", "HO", "FF", "FA", "TOG", "MAX" }

(* float(d.get(k, 0)) if d.get(k) not in [None, 'NaN', ''] else 0 *)
FloatUnlessMissing(v) == IF v.kind \in { "absent", "null" } THEN 0 ELSE v.value

(* float(d.get('PPM', 0)) if d.get('PPM') else 0 *)
FloatIfTruthy(v) ==
    IF v.kind \in { "absent", "null" } \/ v.value = 0 THEN 0 ELSE v.value

(* building the dict that update() receives raises *)
DfsRaises(recent_data) ==
    \/ \E k \in DfsNumbers : FloatRaises(Get(recent_data[k], 0))
    \/ \E k \in { "CB%", "KI", "PPM" } : recent_data[k].kind = "text"

(* one file of the summaries directory; an exception skips the file *)
MergeDfsFile(stats, file) ==
    LET name == NormalizeName(file.filename)
    IN  IF StartsWithCD(file.filename) THEN stats
        ELSE IF file.career = << >> THEN stats
        ELSE IF name \notin DOMAIN stats THEN stats
        ELSE LET recent_data == file.career[1]
             IN  IF DfsRaises(recent_data) THEN stats
                 ELSE [ stats EXCEPT ![name] =
                          [ @ EXCEPT
                              !.kicks = Get(recent_data["K"], 0).value,
                              !.handballs = Get(recent_data["H"], 0).value,
                              !.marks = Get(recent_data["M"], 0).value,
                              !.tackles = Get(recent_data["T"], 0).value,
                              !.hitouts = Get(recent_data["HO"], 0).value,
                              !.free_kicks_for = Get(recent_data["FF"], 0).value,
                              !.free_kicks_against = Get(recent_data["FA"], 0).value,
                              !.time_on_ground = Get(recent_data["TOG"], 0).value,
                              !.cba_percentage = FloatUnlessMissing(recent_data["CB%"]),
                              !.kick_ins = FloatUnlessMissing(recent_data["KI"]),
                              !.high_score = Get(recent_data["MAX"], 0).value,
                              !.points_per_minute = FloatIfTruthy(recent_data["PPM"]),
                              !.disposals = Get(recent_data["K"], 0).value
                                              + Get(recent_data["H"], 0).value,
                              !.data_sources = Append(@, "dfs_summary") ] ]

(* for json_file in glob.glob(...): ... *)
RECURSIVE MergeDfs(_, _)
MergeDfs(stats, files) ==
    IF files = << >> THEN stats
    ELSE MergeDfs(MergeDfsFile(stats, Head(files)), Tail(files))

AppendOnce(sources, source) ==
    IF \E i \in DOMAIN sources : sources[i] = source THEN sources
    ELSE Append(sources, source)

(* for _, row in df_cba.iterrows(): ...; an exception ends the CBA part *)
RECURSIVE MergeCba(_, _)
MergeCba(stats, rows) ==
    IF rows = << >> THEN stats
    ELSE LET name == NormalizeName(Head(rows).Player)
         IN  IF name \notin DOMAIN stats THEN MergeCba(stats, Tail(rows))
             ELSE IF FloatRaises(Get(Head(rows).value, 0)) THEN stats
             ELSE MergeCba(
                    [ stats EXCEPT ![name] =
                        [ @ EXCEPT !.cba_percentage = Get(Head(rows).value, 0).value,
                                   !.data_sources = AppendOnce(@, "csv_cba") ] ],
                    Tail(rows))

(* for _, row in df_kickins.iterrows(): ...; an exception ends the part *)
RECURSIVE MergeKickIns(_, _)
MergeKickIns(stats, rows) ==
    IF rows = << >> THEN stats
    ELSE LET name == NormalizeName(Head(rows).Player)
         IN  IF name \notin DOMAIN stats THEN MergeKickIns(stats, Tail(rows))
             ELSE IF FloatRaises(Get(Head(rows).value, 0)) THEN stats
             ELSE MergeKickIns(
                    [ stats EXCEPT ![name] =
                        [ @ EXCEPT !.kick_ins = Get(Head(rows).value, 0).value,
                                   !.data_sources = AppendOnce(@, "csv_kickins") ] ],
                    Tail(rows))

(* calculate_derived_stats on one profile.  price_per_point is the quotient
   price / average_points, held as numerator and denominator of the
   quotient in points (average_points is in hundredths); the 0.95 and 0.98
   estimates are exact in hundredths for an average of whole points, which
   the averages of the model are. *)
DerivedProfile(stats) ==
    LET a == IF stats.price > 0 /\ stats.average_points > 0
             THEN Put(stats, "price_per_point",
                      << stats.price * 100, stats.average_points >>)
             ELSE stats
        b == IF a.average_points > 0 /\ a.games_played > 0
             THEN [ a EXCEPT !.total_points = a.average_points * a.games_played ]
             ELSE a
        c == IF b.last_score = 0 /\ b.actual_average > 0
             THEN [ b EXCEPT !.last_score = b.actual_average ]
             ELSE b
        d == IF c.last_3_average = 0 /\ c.average_points > 0
             THEN [ c EXCEPT !.last_3_average = (c.average_points * 95) \div 100 ]
             ELSE c
    IN  IF d.last_5_average = 0 /\ d.average_points > 0
        THEN [ d EXCEPT !.last_5_average = (d.average_points * 98) \div 100 ]
        ELSE d

(* for name, stats in self.master_stats.items(): ... *)
DerivedStats(stats) == [ name \in DOMAIN stats |-> DerivedProfile(stats[name]) ]

(* the keys of master_stats in the order load_base_player_data inserted
   them: a dict iterates in the order of the first insertion of each key *)
RECURSIVE KeyOrder(_, _)
KeyOrder(keys, players) ==
    IF players = << >> THEN keys
    ELSE KeyOrder(IF Head(players).name = "" THEN keys
                  ELSE AppendOnce(keys, NormalizeName(Head(players).name)),
                  Tail(players))

(* master_list.sort(key=lambda x: x.get('price', 0), reverse=True): descending,
   and equal prices keep their order *)
RECURSIVE InsertByPriceReverse(_, _)
InsertByPriceReverse(x, s) ==
    IF s = << >> THEN << x >>
    ELSE IF x.price > Head(s).price THEN << x >> \o s
    ELSE << Head(s) >> \o InsertByPriceReverse(x, Tail(s))

RECURSIVE SortByPriceReverse(_)
SortByPriceReverse(s) ==
    IF s = << >> THEN << >>
    ELSE InsertByPriceReverse(s[Len(s)], SortByPriceReverse(SubSeq(s, 1, Len(s) - 1)))

critical_fields ==
    << "average_points", "price", "break_even", "kicks", "handballs",
       "marks", "tackles", "cba_percentage", "points_per_minute",
       "ownership_percentage", "value_rating" >>

(* stats.get(field, 0) not in [0, '', None, 'Unknown']: value_rating is the
   one text field of critical_fields, the others hold numbers *)
UnknownCountsAsPopulated(stats, field) ==
    IF field = "value_rating" THEN stats[field] # ""
    ELSE stats[field] # 0

Populated(stats, field) ==
    IF field = "value_rating" THEN stats[field] \notin { "", "Unknown" }
    ELSE stats[field] # 0

(* MasterStatsConsolidator.analyze_completeness; percentage is in tenths *)
analyze_completeness(stats) ==
    LET total_players == Cardinality(DOMAIN stats)
    IN  [ field \in { critical_fields[i] : i \in DOMAIN critical_fields } |->
            LET populated ==
                  Cardinality({ name \in DOMAIN stats : Populated(stats[name], field) })
            IN  [ populated |-> populated,
                  percentage |-> IF total_players > 0
                                 THEN RoundHalfEven(populated * 1000, total_players)
                                 ELSE 0 ] ]

(* the output_data that save_master_file dumps *)
OutputData(stats, players) ==
    LET keys == KeyOrder(<< >>, players)
        master_list == SortByPriceReverse([ i \in DOMAIN keys |-> stats[keys[i]] ])
    IN  [ total_players |-> Len(master_list),
          players |-> master_list,
          data_completeness |-> analyze_completeness(stats) ]

(* The source files. *)
BasePlayer(name, avg, breakeven) ==
    [ name |-> name, avg |-> avg, breakeven |-> breakeven,
      price |-> Number(500000), games |-> Number(10) ]

BaseFiles ==
    { << BasePlayer("", Number(7000), Number(6000)) >>,
      << BasePlayer("Tom Smith", Number(8000), Number(7500)) >>,
      << BasePlayer("Tom Smith", Number(8000), Number(7500)),
         BasePlayer("Max Gawn", Absent, Absent) >>,
      << BasePlayer("Max Gawn", Number(9500), Absent),
         BasePlayer("", Number(7000), Number(6000)),
         BasePlayer("Tom Smith", Number(8000), Number(7500)),
         BasePlayer("tom smith", Number(0), Number(-500)) >> }

MetricsRecords ==
    { [ name |-> "Tom Smith", own |-> Number(35), con |-> Number(80), ppm |-> Number(120) ],
      [ name |-> "tom smith", own |-> Absent, con |-> Absent, ppm |-> Absent ],
      [ name |-> "Max Gawn", own |-> Null, con |-> Number(70), ppm |-> Number(110) ],
      [ name |-> "Max Gawn", own |-> Number(50), con |-> Number(70), ppm |-> Number(110) ],
      [ name |-> "Sam Unlisted", own |-> Null, con |-> Null, ppm |-> Null ] }

ValueRecords ==
    { [ name |-> "Tom Smith", actual_avg |-> Number(8150), value_index |-> Number(105),
        value_rating |-> Text("Good") ],
      [ name |-> "Max Gawn", actual_avg |-> Absent, value_index |-> Absent,
        value_rating |-> Absent ] }

CareerYear(k, cb, ppm) ==
    [ x \in DfsNumbers \cup { "CB%", "KI", "PPM" } |->
        IF x = "K" THEN k
        ELSE IF x = "H" THEN Number(800)
        ELSE IF x = "CB%" THEN cb
        ELSE IF x = "PPM" THEN ppm
        ELSE IF x = "MAX" THEN Number(14000)
        ELSE Absent ]

DfsFiles ==
    { [ filename |-> "Tom Smith",
        career |-> << CareerYear(Number(1200), Number(4500), Absent) >> ],
      [ filename |-> "tom smith",
        career |-> << CareerYear(Number(1100), Null, Number(95)),
                      CareerYear(Number(900), Absent, Number(90)) >> ],
      [ filename |-> "Max Gawn", career |-> << CareerYear(Null, Absent, Number(130)) >> ],
      [ filename |-> "CD_I1001", career |-> << CareerYear(Number(700), Absent, Absent) >> ] }

CbaFrames ==
    { << >>,
      << [ Player |-> "Tom Smith", value |-> Number(4000) ],
         [ Player |-> "tom smith", value |-> Number(4200) ] >> }

KickInFrames ==
    { << >>, << [ Player |-> "Max Gawn", value |-> Number(300) ] >> }

(* the sequences of at most 2 elements of a set, without repetition *)
UpToTwo(S) ==
    { << >> } \cup { << a >> : a \in S }
      \cup { s \in { << a, b >> : a \in S, b \in S } : s[1] # s[2] }

(* The consolidator as constructed. *)
MsInit ==
    /\ PmIdle
    /\ BeIdle
    /\ DvpIdle
    /\ NnIdle
    /\ TbIdle
    /\ OrIdle
    /\ output_data = EmptyDict
    /\ ms_pc = "constructed"
    /\ master_stats = EmptyDict
    /\ base_players \in BaseFiles
    /\ metrics_data \in UpToTwo(MetricsRecords)
    /\ value_data \in UpToTwo(ValueRecords)
    /\ dfs_files \in UpToTwo(DfsFiles)
    /\ df_cba \in CbaFrames
    /\ df_kickins \in KickInFrames

(* MasterStatsConsolidator.load_base_player_data *)
load_base_player_data ==
    /\ ms_pc = "constructed"
    /\ master_stats' = LoadBase(master_stats, base_players)
    /\ ms_pc' = "base_loaded"
    /\ UNCHANGED << msFiles, output_data, pmVars, beVars, dvpVars, runVars,
                    nnVars, tbVars, orVars >>

(* MasterStatsConsolidator.merge_fantasy_metrics *)
merge_fantasy_metrics ==
    /\ ms_pc = "base_loaded"
    /\ master_stats' = MergeMetrics(master_stats, metrics_data)
    /\ ms_pc' = "metrics_merged"
    /\ UNCHANGED << msFiles, output_data, pmVars, beVars, dvpVars, runVars,
                    nnVars, tbVars, orVars >>

(* MasterStatsConsolidator.merge_fantasy_value_data *)
merge_fantasy_value_data ==
    /\ ms_pc = "metrics_merged"
    /\ master_stats' = MergeValue(master_stats, value_data)
    /\ ms_pc' = "value_merged"
    /\ UNCHANGED << msFiles, output_data, pmVars, beVars, dvpVars, runVars,
                    nnVars, tbVars, orVars >>

(* MasterStatsConsolidator.merge_dfs_summaries *)
merge_dfs_summaries ==
    /\ ms_pc = "value_merged"
    /\ master_stats' = MergeDfs(master_stats, dfs_files)
    /\ ms_pc' = "dfs_merged"
    /\ UNCHANGED << msFiles, output_data, pmVars, beVars, dvpVars, runVars,
                    nnVars, tbVars, orVars >>

(* MasterStatsConsolidator.merge_csv_data *)
merge_csv_data ==
    /\ ms_pc = "dfs_merged"
    /\ master_stats' = MergeKickIns(MergeCba(master_stats, df_cba), df_kickins)
    /\ ms_pc' = "csv_merged"
    /\ UNCHANGED << msFiles, output_data, pmVars, beVars, dvpVars, runVars,
                    nnVars, tbVars, orVars >>

(* MasterStatsConsolidator.calculate_derived_stats *)
calculate_derived_stats ==
    /\ ms_pc = "csv_merged"
    /\ master_stats' = DerivedStats(master_stats)
    /\ ms_pc' = "derived"
    /\ UNCHANGED << msFiles, output_data, pmVars, beVars, dvpVars, runVars,
                    nnVars, tbVars, orVars >>

(* MasterStatsConsolidator.save_master_file, which calls analyze_completeness *)
save_master_file ==
    /\ ms_pc = "derived"
    /\ output_data' = OutputData(master_stats, base_players)
    /\ ms_pc' = "saved"
    /\ UNCHANGED << master_stats, msFiles, pmVars, beVars, dvpVars, runVars,
                    nnVars, tbVars, orVars >>

MsNext ==
    \/ load_base_player_data
    \/ merge_fantasy_metrics
    \/ merge_fantasy_value_data
    \/ merge_dfs_summaries
    \/ merge_csv_data
    \/ calculate_derived_stats
    \/ save_master_file

SpecConsolidate == MsInit /\ [][MsNext]_vars

----------------------------------------------------------------------------
(***************************************************************************)
(* MasterStatsConsolidator.normalize_name, character by character          *)
(***************************************************************************)

(* A name is a sequence of characters.  The characters of the model: two
   upper-case letters, lower-case letters, the underscore (a word character
   of the regular expressions), the full stop (no word character) and the
   space (the white space). *)
MaxNameLen == 5

NameChars == { "A", "J", "r", "c", "d", "i", "_", ".", " " }

Names == UNION { [ 1..n -> NameChars ] : n \in 0..MaxNameLen }

(* str.lower() on a character *)
Lower(c) ==
    CASE c = "A" -> "a"
      [] c = "J" -> "j"
      [] OTHER -> c

LowerAll(s) == [ i \in DOMAIN s |-> Lower(s[i]) ]

(* \s and \w of the regular expressions *)
IsSpace(c) == c = " "

IsWord(c) == c \notin { " ", "." }

(* str.strip() *)
RECURSIVE StripLeft(_)
StripLeft(s) ==
    IF s # << >> /\ IsSpace(Head(s)) THEN StripLeft(Tail(s)) ELSE s

RECURSIVE StripRight(_)
StripRight(s) ==
    IF s # << >> /\ IsSpace(s[Len(s)])
    THEN StripRight(SubSeq(s, 1, Len(s) - 1)) ELSE s

Strip(s) == StripRight(StripLeft(s))

(* re.sub(r'[^\w\s]', '', s) *)
RemoveSpecial(s) == SelectSeq(s, LAMBDA c : IsWord(c) \/ IsSpace(c))

(* re.sub(r'\s+', ' ', s) *)
RECURSIVE CollapseSpaces(_)
CollapseSpaces(s) ==
    IF s = << >> THEN << >>
    ELSE IF IsSpace(Head(s))
    THEN << " " >> \o CollapseSpaces(StripLeft(s))
    ELSE << Head(s) >> \o CollapseSpaces(Tail(s))

(* s.replace(old, new): the occurrences of old from left to right, without
   overlap *)
RECURSIVE Replace(_, _, _)
Replace(s, old, new) ==
    IF Len(s) < Len(old) THEN s
    ELSE IF SubSeq(s, 1, Len(old)) = old
    THEN new \o Replace(SubSeq(s, Len(old) + 1, Len(s)), old, new)
    ELSE << Head(s) >> \o Replace(Tail(s), old, new)

(* name_mappings, in the order of the dict *)
name_mappings ==
    << << << "c", "d", "_", "i" >>, << >> >>,
       << << "j", "r" >>, << >> >>,
       << << "j", "." >>, << >> >>,
       << << "j", " " >>, << " " >> >> >>

(* for old, new in name_mappings.items(): normalized = normalized.replace(old, new) *)
RECURSIVE ApplyMappings(_, _)
ApplyMappings(s, mappings) ==
    IF mappings = << >> THEN s
    ELSE ApplyMappings(Replace(s, Head(mappings)[1], Head(mappings)[2]),
                       Tail(mappings))

(* MasterStatsConsolidator.normalize_name *)
NormalizedName(name) ==
    IF name = << >> THEN << >>
    ELSE Strip(ApplyMappings(
                 CollapseSpaces(RemoveSpecial(Strip(LowerAll(name)))),
                 name_mappings))

NnInit ==
    /\ PmIdle
    /\ BeIdle
    /\ DvpIdle
    /\ MsIdle
    /\ TbIdle
    /\ OrIdle
    /\ nn_pc = "called"
    /\ nn_name \in Names
    /\ nn_normalized = << >>

normalize_name ==
    /\ nn_pc = "called"
    /\ nn_normalized' = NormalizedName(nn_name)
    /\ nn_pc' = "returned"
    /\ UNCHANGED << nn_name, pmVars, beVars, dvpVars, runVars, msVars,
                    tbVars, orVars >>

NnNext == normalize_name

SpecNormalize == NnInit /\ [][NnNext]_vars

----------------------------------------------------------------------------
(***************************************************************************)
(* test_breakeven_system (src/correct_breakeven_formula.py)                *)
(***************************************************************************)

(* The loaded data.  load_round_data(n) gives the players of round n by
   name; a player of the model is [name, r22, r23, rounds]: r22 and r23 are
   the player's price in the two snapshots (Absent when the snapshot lacks
   the player, Number(0) when the record has no price), rounds the
   player's round_score in rounds 22, 21, ... (Absent when the round lacks
   the player).  breakeven_data['players'] is a sequence of [name,
   break_even, round_score], in the order of the dict.  Prices are whole
   dollars, round scores whole points, break-evens tenths of a point. *)

(* BreakEvenPricingProcessor.calculate_breakeven_score, in tenths *)
BreakevenScore(recent) ==
    IF Len(recent) < 3 THEN 0
    ELSE RoundHalfEven(
           ZipWeightedSum(PadLoop([ i \in 1..Len(recent) |-> PadScale * recent[i] ])),
           SumScale \div 10)

(* BreakEvenPricingProcessor.calculate_price_change_from_breakeven; the two
   scores in tenths *)
PriceFromBreakeven(cp, actual, breakeven) ==
    LET sd == actual - breakeven
        bc == (sd * price_per_point) \div 10
        scaled == (bc * AdjustmentFactor(cp, bc)) \div 10
    IN  FlooredPrice(cp, IF WithinProtection(sd) /\ IsSmallChange(scaled)
                         THEN 0 ELSE scaled)

(* list(set(round22_data.keys()) & set(round23_data.keys())) *)
CommonPlayers(data) ==
    SelectSeq(data.players, LAMBDA pl : pl.r22.kind # "absent" /\ pl.r23.kind # "absent")

(* the scores > 0 of rounds 22, 21, ... until 5 are found *)
RECURSIVE CollectScores(_, _)
CollectScores(found, rounds) ==
    IF Len(found) >= 5 \/ rounds = << >> THEN found
    ELSE CollectScores(IF Head(rounds).kind = "num" /\ Head(rounds).value > 0
                       THEN Append(found, Head(rounds).value) ELSE found,
                       Tail(rounds))

(* if len(scores) < 3: continue *)
TooFewScoresBelowTwo(found) == Len(found) < 2

TooFewScores(found) == Len(found) < 3

(* the first record of breakeven_data whose name is display_name, as
   (afl_breakeven, actual_r23_score); (0, 0) when there is none *)
RECURSIVE FindBreakeven(_, _)
FindBreakeven(records, display_name) ==
    IF records = << >> THEN [ break_even |-> 0, round_score |-> 0 ]
    ELSE IF Head(records).name = display_name
    THEN [ break_even |-> Head(records).break_even,
           round_score |-> Head(records).round_score ]
    ELSE FindBreakeven(Tail(records), display_name)

(* one pass of the loop over common_players: the entry appended to
   test_results, or none *)
TestPlayer(pl, data) ==
    LET r22_price == pl.r22.value
        r23_price == pl.r23.value
        found == CollectScores(<< >>, pl.rounds)
        our_breakeven == BreakevenScore(found)
        afl == FindBreakeven(data.breakeven, pl.name)
        predicted_change ==
            PriceFromBreakeven(r22_price, 10 * afl.round_score, our_breakeven) - r22_price
    IN  IF r22_price = 0 \/ r23_price = 0 THEN << >>
        ELSE IF TooFewScores(found) THEN << >>
        ELSE IF afl.break_even = 0 \/ afl.round_score = 0 THEN << >>
        ELSE << [ name |-> pl.name,
                  our_breakeven |-> our_breakeven,
                  afl_breakeven |-> afl.break_even,
                  breakeven_diff |-> our_breakeven - afl.break_even,
                  actual_score |-> afl.round_score,
                  predicted_change |-> predicted_change,
                  actual_change |-> r23_price - r22_price,
                  error |-> Abs((r23_price - r22_price) - predicted_change) ] >>

RECURSIVE SeqMax(_)
SeqMax(s) == IF Len(s) = 1 THEN s[1] ELSE Max(Head(s), SeqMax(Tail(s)))

(* the statistics over test_results; a mean is held as the sum, to be
   divided by tests_completed *)
Summary(results) ==
    LET be_errors == [ i \in DOMAIN results |-> Abs(results[i].breakeven_diff) ]
        price_errors == [ i \in DOMAIN results |-> results[i].error ]
    IN  [ tests_completed |-> Len(results),
          be_error_sum |-> SeqSum(be_errors),
          price_error_sum |-> SeqSum(price_errors),
          max_price_error |-> SeqMax(price_errors),
          within_target_count |->
              Cardinality({ i \in DOMAIN price_errors : price_errors[i] <= 3000 }) ]

(* The players of the model. *)
TbPlayer(name, r22, r23, rounds) ==
    [ name |-> name, r22 |-> r22, r23 |-> r23, rounds |-> rounds ]

TbPlayers(name) ==
    { TbPlayer(name, Number(500000), Number(515000),
               << Number(80), Number(90), Number(0), Number(100), Absent,
                  Number(70), Number(60), Number(50) >>),
      TbPlayer(name, Number(250000), Number(251000),
               << Number(80), Absent, Number(90), Number(0), Number(100) >>),
      TbPlayer(name, Number(500000), Number(515000),
               << Number(80), Number(0), Number(90), Absent >>),
      TbPlayer(name, Number(500000), Absent,
               << Number(80), Number(90), Number(100) >>),
      TbPlayer(name, Absent, Number(515000),
               << Absent, Number(90), Number(100), Number(70) >>),
      TbPlayer(name, Number(0), Number(515000),
               << Number(80), Number(90), Number(100) >>) }

BreakevenFiles ==
    { << >>,
      << [ name |-> "P1", break_even |-> 200, round_score |-> 25 ] >>,
      << [ name |-> "P2", break_even |-> 850, round_score |-> 95 ],
         [ name |-> "P1", break_even |-> 200, round_score |-> 25 ] >>,
      << [ name |-> "P1", break_even |-> 0, round_score |-> 25 ],
         [ name |-> "P2", break_even |-> 850, round_score |-> 95 ] >>,
      << [ name |-> "P1", break_even |-> 200, round_score |-> 0 ],
         [ name |-> "P1", break_even |-> 200, round_score |-> 25 ],
         [ name |-> "P2", break_even |-> 850, round_score |-> 95 ] >> }

TbInit ==
    /\ PmIdle
    /\ BeIdle
    /\ DvpIdle
    /\ MsIdle
    /\ NnIdle
    /\ OrIdle
    /\ tb_pc = "called"
    /\ \E p1 \in TbPlayers("P1"), p2 \in TbPlayers("P2"), be \in BreakevenFiles :
         \/ tb_data = [ players |-> << p1, p2 >>, breakeven |-> be ]
         \/ tb_data = [ players |-> << p2, p1 >>, breakeven |-> be ]
    /\ tb_next = 0
    /\ test_results = << >>
    /\ tb_summary = EmptyDict

(* lines 120-139: the data is loaded, the loop starts at the first common
   player *)
start_test ==
    /\ tb_pc = "called"
    /\ tb_next' = 1
    /\ tb_pc' = "looping"
    /\ UNCHANGED << tb_data, test_results, tb_summary,
                    pmVars, beVars, dvpVars, runVars, msVars, nnVars, orVars >>

(* lines 141-216: one pass of the loop *)
test_player ==
    /\ tb_pc = "looping"
    /\ tb_next <= Len(CommonPlayers(tb_data))
    /\ test_results' = test_results \o TestPlayer(CommonPlayers(tb_data)[tb_next], tb_data)
    /\ tb_next' = tb_next + 1
    /\ UNCHANGED << tb_pc, tb_data, tb_summary,
                    pmVars, beVars, dvpVars, runVars, msVars, nnVars, orVars >>

(* lines 218-265: the statistics, when there is a result *)
summarize ==
    /\ tb_pc = "looping"
    /\ tb_next > Len(CommonPlayers(tb_data))
    /\ tb_summary' = IF test_results # << >> THEN Summary(test_results) ELSE tb_summary
    /\ tb_pc' = "returned"
    /\ UNCHANGED << tb_data, tb_next, test_results,
                    pmVars, beVars, dvpVars, runVars, msVars, nnVars, orVars >>

TbNext == start_test \/ test_player \/ summarize

SpecHarness == TbInit /\ [][TbNext]_vars

----------------------------------------------------------------------------
(***************************************************************************)
(* DFSPipelineOrchestrator (src/scrapers/run_dfs_pipeline.py)              *)
(***************************************************************************)

(* A directory is the set of the names of its xlsx files: source_files for
   the source locations of step 1, raw_data_files for
   raw_data/player_excel_files, archive_files for attached_assets.  The
   loader is an external program: it leaves the directories as they are,
   ends with a return code, a timeout or an error, and leaves any
   loader_progress.json behind, also none or an unreadable one; the file
   may exist before the run.  A progress file lists a name as completed or
   as failed, not as both.  The directories can be listed; a single move
   may fail. *)
FileNames == { "f1.xlsx", "f2.xlsx" }

ProgressFiles ==
    { [ state |-> "missing", completed |-> { }, failed |-> { } ],
      [ state |-> "unreadable", completed |-> { }, failed |-> { } ] }
      \cup { [ state |-> "loaded", completed |-> c, failed |-> f ] :
               c \in SUBSET FileNames, f \in SUBSET FileNames }

DisjointProgressFiles ==
    { p \in ProgressFiles : p.completed \cap p.failed = { } }

(* if excel_file.name in completed_files: the files step 3 tries to move *)
ToArchiveAllButFailed(raw, progress) == raw \ progress.failed

ToArchive(raw, progress) == raw \cap progress.completed

OrInit ==
    /\ PmIdle
    /\ BeIdle
    /\ DvpIdle
    /\ MsIdle
    /\ NnIdle
    /\ TbIdle
    /\ or_pc = "started"
    /\ source_files \in SUBSET FileNames
    /\ raw_data_files \in SUBSET FileNames
    /\ archive_files \in { { }, { "f1.xlsx" } }
    /\ progress_file \in DisjointProgressFiles
    /\ consolidated = 0
    /\ loader_success = FALSE
    /\ archive_success = FALSE
    /\ or_result = FALSE

(* DFSPipelineOrchestrator.step1_consolidate_files: a found file whose name
   is not in raw_data is moved there, unless the move raises *)
step1_consolidate_files ==
    /\ or_pc = "started"
    /\ \E raising \in SUBSET (source_files \ raw_data_files) :
         LET moved == (source_files \ raw_data_files) \ raising
         IN  /\ raw_data_files' = raw_data_files \cup moved
             /\ source_files' = source_files \ moved
             /\ consolidated' = Cardinality(moved)
    /\ or_pc' = "consolidated"
    /\ UNCHANGED << archive_files, progress_file, loader_success, archive_success,
                    or_result, pmVars, beVars, dvpVars, runVars, msVars,
                    nnVars, tbVars >>

(* DFSPipelineOrchestrator.step2_run_loader *)
step2_run_loader ==
    /\ or_pc = "consolidated"
    /\ IF raw_data_files = { }
       THEN /\ loader_success' = FALSE
            /\ UNCHANGED progress_file
       ELSE /\ loader_success' \in BOOLEAN
            /\ progress_file' \in DisjointProgressFiles
    /\ or_pc' = "loaded"
    /\ UNCHANGED << source_files, raw_data_files, archive_files, consolidated,
                    archive_success, or_result, pmVars, beVars, dvpVars, runVars,
                    msVars, nnVars, tbVars >>

(* DFSPipelineOrchestrator.step3_archive_completed_files, which run calls
   when the loader succeeded *)
step3_archive_completed_files ==
    /\ or_pc = "loaded"
    /\ loader_success
    /\ IF progress_file.state # "loaded"
       THEN /\ archive_success' = FALSE
            /\ UNCHANGED << raw_data_files, archive_files >>
       ELSE \E raising \in SUBSET ToArchive(raw_data_files, progress_file) :
              LET moved == ToArchive(raw_data_files, progress_file) \ raising
              IN  /\ raw_data_files' = raw_data_files \ moved
                  /\ archive_files' = archive_files \cup moved
                  /\ archive_success' = TRUE
    /\ or_pc' = "archived"
    /\ UNCHANGED << source_files, progress_file, consolidated, loader_success,
                    or_result, pmVars, beVars, dvpVars, runVars, msVars,
                    nnVars, tbVars >>

(* run, lines 309-313: the archive step is skipped after a loader failure *)
skip_archive ==
    /\ or_pc = "loaded"
    /\ ~ loader_success
    /\ archive_success' = FALSE
    /\ or_pc' = "archived"
    /\ UNCHANGED << source_files, raw_data_files, archive_files, progress_file,
                    consolidated, loader_success, or_result,
                    pmVars, beVars, dvpVars, runVars, msVars, nnVars, tbVars >>

(* run, lines 315-319: the summary is logged and the status returned *)
generate_summary_report ==
    /\ or_pc = "archived"
    /\ or_result' = (loader_success /\ archive_success)
    /\ or_pc' = "returned"
    /\ UNCHANGED << source_files, raw_data_files, archive_files, progress_file,
                    consolidated, loader_success, archive_success,
                    pmVars, beVars, dvpVars, runVars, msVars, nnVars, tbVars >>

OrNext ==
    \/ step1_consolidate_files
    \/ step2_run_loader
    \/ step3_archive_completed_files
    \/ skip_archive
    \/ generate_summary_report

SpecPipeline == OrInit /\ [][OrNext]_vars

----------------------------------------------------------------------------
(* Properties of AFLCompleteProcessor, checked under SpecPrice *)

PriceChangeReturned ==
    pm_call = "calculate_price_change" /\ pm_pc = "returned"

(* The positions of the input scores that are > 0, and the j-th of them. *)
PositiveAt == { i \in DOMAIN scores : scores[i] > 0 }

NthPositive(j) ==
    scores[CHOOSE i \in PositiveAt :
               Cardinality({ x \in PositiveAt : x < i }) = j - 1]

(* C1: with at least 3 scores > 0, calculate_price_change returns the whole
   number nearest to 0.75 * old_price + M * W, where W is the sum of the
   weights 0.083, 0.067, 0.050, 0.033, 0.017 applied in this order to the
   5-entry window and M is the round's registered magic number, or 9736 for
   a round outside the table; nothing bounds the result from below or above.
   (W is in 1/12000, so the nearest whole number n satisfies
   |12000 * n - (9000 * old_price + M * W)| <= 6000; the two sides are split
   into whole and fractional parts.) *)
C1_PriceFormula ==
    (PriceChangeReturned /\ Cardinality(PositiveAt) >= 3) =>
        LET M == IF round_num \in 0..23 THEN magic_numbers[round_num] ELSE 9736
            W == 83 * valid_scores[1] + 67 * valid_scores[2]
                   + 50 * valid_scores[3] + 33 * valid_scores[4]
                   + 17 * valid_scores[5]
            whole == ((3 * old_price) \div 4) + M * (W \div 12000)
            frac  == 3000 * ((3 * old_price) % 4) + M * (W % 12000)
        IN  /\ Len(valid_scores) = 5
            /\ weighted_sum = W
            /\ magic_number = M
            /\ Abs(12000 * (new_price - whole) - frac) <= 6000

C1_Witness ==
    /\ PriceChangeReturned
    /\ Cardinality(PositiveAt) >= 3
    /\ round_num = 24
    /\ magic_number = 9736
    /\ new_price # old_price

IsDemoCall ==
    /\ PriceChangeReturned
    /\ old_price = 800000
    /\ scores = << 85, 92, 78, 88, 95 >>
    /\ round_num = 23

(* C2 as stated: calculate_price_change(800000, [85, 92, 78, 88, 95], 23)
   has weighted sum 21.638 and returns 810782. *)
C2_Original ==
    IsDemoCall => (weighted_sum = 21638 * 12 /\ new_price = 810782)

(* C2 amended: calculate_price_change(800000, [85, 92, 78, 88, 95], 23) has
   weighted sum 21.638 and, with magic number 9736, returns 810668
   (9736 * 21.638 = 210667.568). *)
C2_DemoPrice ==
    IsDemoCall =>
        (weighted_sum = 21638 * 12 /\ magic_number = 9736 /\ new_price = 810668)

C2_Witness == IsDemoCall /\ new_price = 810668

(* C3: calculate_price_change keeps no score <= 0 and, when fewer than 3
   scores > 0 remain, returns old_price unchanged, whatever the price and
   the round. *)
C3_TooFewScores ==
    PriceChangeReturned =>
        /\ \A i \in DOMAIN valid_scores : valid_scores[i] > 0
        /\ Cardinality(PositiveAt) < 3 => new_price = old_price

C3_Witness ==
    /\ PriceChangeReturned
    /\ Cardinality(PositiveAt) = 2
    /\ Len(scores) >= 3
    /\ \E i \in DOMAIN scores : scores[i] = 0
    /\ \E i \in DOMAIN scores : scores[i] < 0
    /\ new_price = old_price

(* C4: with at least 3 scores > 0 the window has exactly 5 entries: the
   scores > 0 in input order (the first 5 of them when there are more),
   followed, when there are fewer than 5, by their mean. *)
C4_Window ==
    (PriceChangeReturned /\ Cardinality(PositiveAt) >= 3) =>
        LET k == Cardinality(PositiveAt)
            total == SeqSum([ j \in 1..k |-> NthPositive(j) ])
        IN  /\ Len(valid_scores) = 5
            /\ \A j \in 1..5 :
                 IF j <= k
                 THEN valid_scores[j] = 12 * NthPositive(j)
                 ELSE k * valid_scores[j] = 12 * total

C4_Witness ==
    /\ PriceChangeReturned
    /\ Cardinality(PositiveAt) = 3
    /\ Len(scores) = 5
    /\ scores[1] = 0
    /\ \E i, j \in PositiveAt : scores[i] # scores[j]
    /\ Len(valid_scores) = 5
    /\ valid_scores[5] # valid_scores[1]

(* C9: calculate_price_per_point returns price / average_points rounded to
   2 decimals (the nearest hundredth), returns 0 whenever average_points is
   0, and gives 8376.96 for (800000, 95.5). *)
C9_PricePerPoint ==
    (pm_call = "calculate_price_per_point" /\ pm_pc = "returned") =>
        /\ average_points = 0 => ppp_result = 0
        /\ average_points > 0 =>
             2 * Abs(ppp_result * average_points - 1000 * price) <= average_points
        /\ (price = 800000 /\ average_points = 955) => ppp_result = 837696

C9_Witness ==
    /\ pm_call = "calculate_price_per_point"
    /\ pm_pc = "returned"
    /\ average_points = 0
    /\ price = 800000
    /\ ppp_result = 0

----------------------------------------------------------------------------
(* Properties of BreakEvenPricingProcessor, checked under SpecBreakEven *)

BreakevenScoreReturned ==
    be_call = "calculate_breakeven_score" /\ be_pc = "returned"

PcfbReturned ==
    be_call = "calculate_price_change_from_breakeven" /\ be_pc = "returned"

(* C5: for every list of recent scores from which calculate_price_change
   builds a window (at least 3 scores > 0), calculate_breakeven_score
   returns the weighted sum, rounded to 1 decimal, of that window: scores
   <= 0 discarded, padded with the mean of the valid scores, cut to 5. *)
C5_SameWindow ==
    (BreakevenScoreReturned
       /\ Cardinality({ i \in DOMAIN recent_scores : recent_scores[i] > 0 }) >= 3) =>
        be_result =
            RoundHalfEven(WeightedSum(PadOrTruncate(ValidScores(recent_scores))),
                          1200)

(* C6: base_change is (actual_score - breakeven_score) * 300 and the factor
   applied to it is 1.4 for a rise and 0.7 for a drop when current_price <
   300000, 0.6 for a rise and 1.2 for a drop when current_price > 1300000,
   and 1.0 for every price in 300000..1300000; a change that the protection
   rule leaves alone is base_change times the factor, and
   (250000, actual 90, break-even 70) returns 258400. *)
C6_TierFactor ==
    PcfbReturned =>
        /\ score_difference = actual_score - breakeven_score
        /\ 10 * base_change = score_difference * 300
        /\ (current_price < 300000 /\ score_difference > 0) => adjustment_factor = 14
        /\ (current_price < 300000 /\ score_difference < 0) => adjustment_factor = 7
        /\ (current_price > 1300000 /\ score_difference > 0) => adjustment_factor = 6
        /\ (current_price > 1300000 /\ score_difference < 0) => adjustment_factor = 12
        /\ (current_price >= 300000 /\ current_price <= 1300000) =>
               adjustment_factor = 10
        /\ Abs(score_difference) > 100 =>
               10 * adjusted_change = base_change * adjustment_factor
        /\ (current_price = 250000 /\ actual_score = 900 /\ breakeven_score = 700) =>
               be_new_price = 258400

C6_Witness ==
    /\ PcfbReturned
    /\ current_price = 250000
    /\ actual_score = 900
    /\ breakeven_score = 700
    /\ base_change = 6000
    /\ adjusted_change = 8400
    /\ be_new_price = 258400

(* C7: whenever |actual_score - breakeven_score| <= 10 and the tier-adjusted
   change is below 15000 in magnitude the change is zero, and whenever the
   difference exceeds 10 the tier-adjusted change is applied in full: the
   outcome is a function of the arguments. *)
C7_Protection ==
    PcfbReturned =>
        LET tier_adjusted == (base_change * adjustment_factor) \div 10
        IN  /\ (Abs(actual_score - breakeven_score) <= 100
                  /\ Abs(tier_adjusted) < 15000) => adjusted_change = 0
            /\ Abs(actual_score - breakeven_score) > 100 =>
                   adjusted_change = tier_adjusted

C7_Witness ==
    /\ PcfbReturned
    /\ Abs(actual_score - breakeven_score) = 100
    /\ base_change # 0
    /\ adjusted_change = 0
    /\ be_new_price = current_price

(* C8: calculate_price_change_from_breakeven returns
   max(current_price + adjusted_change, 200000), never less than 200000. *)
C8_PriceFloor ==
    PcfbReturned =>
        /\ be_new_price >= 200000
        /\ be_new_price = IF current_price + adjusted_change >= 200000
                          THEN current_price + adjusted_change
                          ELSE 200000

C8_Witness ==
    /\ PcfbReturned
    /\ current_price > 200000
    /\ current_price + adjusted_change < 200000
    /\ be_new_price = 200000

----------------------------------------------------------------------------
(* Properties of DVPAnalyzer.create_dvp_team_ratings, checked under SpecDVP *)

(* The stats entry of a team, its place in team_defensive_stats, the teams
   eligible for a position and the index of one of them in ascending order
   of average (ties in dict order). *)
PlaceOf(t) == CHOOSE i \in DOMAIN team_defensive_stats : team_defensive_stats[i].team = t

StatsOf(t, p) == team_defensive_stats[PlaceOf(t)].stats[p]

EligibleTeams(p) ==
    { team_defensive_stats[i].team : i \in
        { j \in DOMAIN team_defensive_stats :
            team_defensive_stats[j].stats[p].sample_size >= 3 } }

SortedIndex(t, p) ==
    Cardinality({ u \in EligibleTeams(p) :
        \/ StatsOf(u, p).avg_points_allowed < StatsOf(t, p).avg_points_allowed
        \/ /\ StatsOf(u, p).avg_points_allowed = StatsOf(t, p).avg_points_allowed
           /\ PlaceOf(u) < PlaceOf(t) })

RatedPairs ==
    { << t, p >> \in (DOMAIN team_dvp_ratings) \X { "Forward", "Midfielder", "Defender", "Ruck" } :
        p \in DOMAIN team_dvp_ratings[t] }

(* C10 as stated: the team at index i of the n eligible teams of a group
   gets rating clamp(1, 10, round(9 * i / (n - 1)) + 1), round being to the
   nearest integer (either way on a tie). *)
C10_Original ==
    \A pair \in RatedPairs :
        LET i == SortedIndex(pair[1], pair[2])
            n == Cardinality(EligibleTeams(pair[2]))
            r == team_dvp_ratings[pair[1]][pair[2]].rating
        IN  \E q \in 0..9 :
              /\ 2 * Abs(q * (n - 1) - 9 * i) <= n - 1
              /\ r = Max(1, Min(10, q + 1))

(* C10 amended: every rating written is for a group of n >= 2 eligible
   teams, and the team at index i of them in ascending order of average
   gets rating clamp(1, 10, floor(9 * i / (n - 1)) + 1), the quotient
   truncated, not rounded (n = 5, i = 3 gives 6 + 1 = 7). *)
C10_TruncatedRating ==
    \A pair \in RatedPairs :
        LET i == SortedIndex(pair[1], pair[2])
            n == Cardinality(EligibleTeams(pair[2]))
            entry == team_dvp_ratings[pair[1]][pair[2]]
            q == CHOOSE x \in 0..9 : x * (n - 1) <= 9 * i /\ 9 * i < (x + 1) * (n - 1)
        IN  /\ n >= 2
            /\ pair[1] \in EligibleTeams(pair[2])
            /\ entry.rank = i + 1
            /\ entry.rating = q + 1
            /\ entry.rating \in 1..10
            /\ (n = 5 /\ i = 3) => entry.rating = 7

C10_Witness ==
    /\ dvp_pc = "ranked"
    /\ Cardinality(EligibleTeams("Forward")) = 5
    /\ \E t \in DOMAIN team_dvp_ratings :
         /\ "Forward" \in DOMAIN team_dvp_ratings[t]
         /\ team_dvp_ratings[t]["Forward"].rank = 4
         /\ team_dvp_ratings[t]["Forward"].rating = 7

CreateRatingsEnded == dvp_pc \in { "ranked", "raised" }

PositionIndex(p) == CHOOSE k \in DOMAIN Positions : Positions[k] = p

HasRating(t, p) ==
    t \in DOMAIN team_dvp_ratings /\ p \in DOMAIN team_dvp_ratings[t]

(* The groups the position loop reached and ranked: at least 2 eligible
   teams, and no group at or before it with exactly one eligible team. *)
RankedGroups ==
    { p \in PositionSet :
        /\ Cardinality(EligibleTeams(p)) >= 2
        /\ \A q \in PositionSet :
             PositionIndex(q) <= PositionIndex(p) => Cardinality(EligibleTeams(q)) # 1 }

(* C11: when exactly one team of a position group is eligible,
   create_dvp_team_ratings gives that team rating 1 and completes without a
   division by zero. *)
C11_SingleTeamRatedOne ==
    CreateRatingsEnded =>
        \A p \in PositionSet :
            Cardinality(EligibleTeams(p)) = 1 =>
                /\ dvp_error = "none"
                /\ \A t \in EligibleTeams(p) :
                     HasRating(t, p) /\ team_dvp_ratings[t][p].rating = 1

(* C14: within a position group a team that allows fewer points never has
   a higher rating than one that allows more, and in every group with
   n >= 2 eligible teams the team first in ascending order of average has
   rating 1 and the team last has rating 10. *)
C14_Original ==
    CreateRatingsEnded =>
        /\ \A p \in PositionSet : \A t, u \in DOMAIN team_dvp_ratings :
             (HasRating(t, p) /\ HasRating(u, p)
                /\ StatsOf(t, p).avg_points_allowed < StatsOf(u, p).avg_points_allowed)
               => team_dvp_ratings[t][p].rating <= team_dvp_ratings[u][p].rating
        /\ \A p \in PositionSet : Cardinality(EligibleTeams(p)) >= 2 =>
             \A t \in EligibleTeams(p) :
                /\ SortedIndex(t, p) = 0
                     => HasRating(t, p) /\ team_dvp_ratings[t][p].rating = 1
                /\ SortedIndex(t, p) = Cardinality(EligibleTeams(p)) - 1
                     => HasRating(t, p) /\ team_dvp_ratings[t][p].rating = 10

(* C14, for the groups the position loop reaches: ratings are
   non-decreasing in average points allowed; in every ranked group every
   eligible team is rated, the team first in ascending order of average has
   rating 1 and the team last has rating 10; four teams at averages 60, 70,
   80, 90 have ratings 1, 4, 7, 10, a function of team_defensive_stats. *)
C14_Monotone ==
    CreateRatingsEnded =>
        /\ \A p \in PositionSet : \A t, u \in DOMAIN team_dvp_ratings :
             (HasRating(t, p) /\ HasRating(u, p)
                /\ StatsOf(t, p).avg_points_allowed < StatsOf(u, p).avg_points_allowed)
               => team_dvp_ratings[t][p].rating <= team_dvp_ratings[u][p].rating
        /\ \A p \in RankedGroups : \A t \in EligibleTeams(p) :
             /\ HasRating(t, p)
             /\ team_dvp_ratings[t][p].avg_points_allowed = StatsOf(t, p).avg_points_allowed
             /\ SortedIndex(t, p) = 0 => team_dvp_ratings[t][p].rating = 1
             /\ SortedIndex(t, p) = Cardinality(EligibleTeams(p)) - 1
                  => team_dvp_ratings[t][p].rating = 10
        /\ ( /\ Cardinality(EligibleTeams("Forward")) = 4
             /\ { StatsOf(t, "Forward").avg_points_allowed : t \in EligibleTeams("Forward") }
                  = { 60 * AvgScale, 70 * AvgScale, 80 * AvgScale, 90 * AvgScale } )
             => \A t \in EligibleTeams("Forward") :
                  /\ HasRating(t, "Forward")
                  /\ team_dvp_ratings[t]["Forward"].rating =
                       CASE StatsOf(t, "Forward").avg_points_allowed = 60 * AvgScale -> 1
                         [] StatsOf(t, "Forward").avg_points_allowed = 70 * AvgScale -> 4
                         [] StatsOf(t, "Forward").avg_points_allowed = 80 * AvgScale -> 7
                         [] OTHER -> 10

C14_Witness ==
    /\ dvp_pc = "ranked"
    /\ Len(team_defensive_stats) = 5
    /\ Cardinality(EligibleTeams("Forward")) = 4
    /\ \E a, b, c, d \in DOMAIN team_dvp_ratings :
         /\ HasRating(a, "Forward") /\ HasRating(b, "Forward")
         /\ HasRating(c, "Forward") /\ HasRating(d, "Forward")
         /\ team_dvp_ratings[a]["Forward"] = [ rating |-> 1, avg_points_allowed |-> 60 * AvgScale, rank |-> 1 ]
         /\ team_dvp_ratings[b]["Forward"] = [ rating |-> 4, avg_points_allowed |-> 70 * AvgScale, rank |-> 2 ]
         /\ team_dvp_ratings[c]["Forward"] = [ rating |-> 7, avg_points_allowed |-> 80 * AvgScale, rank |-> 3 ]
         /\ team_dvp_ratings[d]["Forward"] = [ rating |-> 10, avg_points_allowed |-> 90 * AvgScale, rank |-> 4 ]

(* C18: a position group with zero eligible teams is skipped and only it:
   no rating is written for it, every other group with eligible teams is
   ranked, and the method does not raise. *)
C18_OnlyEmptyGroupSkipped ==
    (CreateRatingsEnded /\ \E p \in PositionSet : EligibleTeams(p) = { }) =>
        /\ dvp_error = "none"
        /\ \A p \in PositionSet :
             IF EligibleTeams(p) = { }
             THEN \A t \in DOMAIN team_dvp_ratings : ~ HasRating(t, p)
             ELSE \A t \in EligibleTeams(p) : HasRating(t, p)

(***************************************************************************)
(* Properties of the other steps of DVPAnalyzer.run_full_analysis          *)
(***************************************************************************)

StatsRecorded == dvp_pc \in { "aggregated", "ranked", "raised", "rated", "matched" }

Opponents == { player_data[i].opponent : i \in DOMAIN player_data }

Recorded(t) == \E k \in DOMAIN team_defensive_stats : team_defensive_stats[k].team = t

MappedTo(name, p) ==
    name \in DOMAIN player_to_position /\ player_to_position[name] = p

(* the rows with a non-zero average and at least 2 games against the team,
   of players the lookup maps to the position group *)
SampleRows(t, p) ==
    SelectSeq(player_data,
              LAMBDA r : r.opponent = t /\ r.AVG # 0 /\ r.GM >= 2 /\ MappedTo(r.PLAYER, p))

(* the same without the condition on the average *)
RowsWithTwoGames(t, p) ==
    SelectSeq(player_data, LAMBDA r : r.opponent = t /\ r.GM >= 2 /\ MappedTo(r.PLAYER, p))

SumOfAverages(rows) == SeqSum([ i \in DOMAIN rows |-> rows[i].AVG ])

(* C12: a pair is ranked only if it has at least 3 samples, and every pair
   of a recorded team with fewer than 3 samples, 1 or 2 included, is
   recorded with sample_size 0 and avg_points_allowed 0 and has no rating. *)
C12_Original ==
    StatsRecorded =>
        \A t \in Opponents : \A p \in PositionSet :
            Recorded(t) =>
                /\ HasRating(t, p) => Len(SampleRows(t, p)) >= 3
                /\ Len(SampleRows(t, p)) < 3 =>
                     StatsOf(t, p) = NoSamples /\ ~ HasRating(t, p)

(* C12, as the code has it: a pair has a rating only if it has at least 3
   samples; a team is recorded only if some pair of it has a sample; a
   recorded pair without samples has sample_size 0 and average 0, a pair
   with 1 or 2 samples has its actual sample size and the mean of its
   samples, and neither has a rating. *)
C12_ActualSampleSize ==
    StatsRecorded =>
        \A t \in Opponents : \A p \in PositionSet :
            LET rows == SampleRows(t, p)
            IN  /\ Recorded(t) => \E q \in PositionSet : SampleRows(t, q) # << >>
                /\ Recorded(t) =>
                     /\ HasRating(t, p) => Len(rows) >= 3
                     /\ Len(rows) < 3 => ~ HasRating(t, p)
                     /\ Len(rows) = 0 => StatsOf(t, p) = NoSamples
                     /\ Len(rows) \in { 1, 2 } =>
                          /\ StatsOf(t, p).sample_size = Len(rows)
                          /\ StatsOf(t, p).avg_points_allowed * Len(rows)
                               = SumOfAverages(rows) * AvgScale

C12_Witness ==
    /\ dvp_pc = "ranked"
    /\ \E t \in Opponents : \E p, q, r \in PositionSet :
         /\ Recorded(t)
         /\ StatsOf(t, p).sample_size \in { 1, 2 } /\ ~ HasRating(t, p)
         /\ StatsOf(t, q) = NoSamples /\ ~ HasRating(t, q)
         /\ StatsOf(t, r).sample_size >= 3 /\ HasRating(t, r)

(* C13: every team rating create_dvp_team_ratings writes is an integer in
   1..10 and every player matchup rating calculate_player_dvp_ratings
   writes is a whole number of tenths in 1.0..10.0. *)
C13_RatingsInRange ==
    /\ \A t \in DOMAIN team_dvp_ratings : \A p \in DOMAIN team_dvp_ratings[t] :
         team_dvp_ratings[t][p].rating \in 1..10
    /\ \A k \in DOMAIN player_dvp_ratings :
         player_dvp_ratings[k].data.rating \in 10..100

C13_Witness ==
    /\ dvp_pc = "rated"
    /\ \E t, u \in DOMAIN team_dvp_ratings :
         /\ HasRating(t, "Forward") /\ team_dvp_ratings[t]["Forward"].rating = 1
         /\ HasRating(u, "Forward") /\ team_dvp_ratings[u]["Forward"].rating = 10
    /\ \E k, j, m \in DOMAIN player_dvp_ratings :
         /\ player_dvp_ratings[k].data.avg_points = 150
         /\ player_dvp_ratings[k].data.rating = 100
         /\ player_dvp_ratings[j].data.avg_points = -5
         /\ player_dvp_ratings[j].data.rating = 10
         /\ player_dvp_ratings[m].data.rating = 38

(* C15: a pair's sample list holds the average of exactly the rows with at
   least 2 games against the team whose player maps to the group, and the
   pair's avg_points_allowed is the mean of those samples. *)
C15_Original ==
    StatsRecorded =>
        \A t \in Opponents : \A p \in PositionSet :
            LET rows == RowsWithTwoGames(t, p)
            IN  rows # << >> =>
                    /\ Recorded(t)
                    /\ StatsOf(t, p).sample_size = Len(rows)
                    /\ StatsOf(t, p).avg_points_allowed * Len(rows)
                         = SumOfAverages(rows) * AvgScale

(* C15, as the code has it: a row contributes exactly when its average is
   not 0, it has at least 2 games and its player maps to the group; rows of
   players outside the lookup contribute to no pair; the recorded teams are
   the teams with a contributing row; the pair's avg_points_allowed is the
   mean of its samples. *)
C15_Contribution ==
    StatsRecorded =>
        /\ \A k \in DOMAIN team_defensive_stats : team_defensive_stats[k].team \in Opponents
        /\ \A t \in Opponents :
             /\ Recorded(t) <=> \E q \in PositionSet : SampleRows(t, q) # << >>
             /\ Recorded(t) =>
                  \A p \in PositionSet :
                     LET rows == SampleRows(t, p)
                     IN  /\ StatsOf(t, p).sample_size = Len(rows)
                         /\ StatsOf(t, p).avg_points_allowed * Max(1, Len(rows))
                              = SumOfAverages(rows) * AvgScale

C15_Witness ==
    /\ dvp_pc = "aggregated"
    /\ \E i, j \in DOMAIN player_data :
         /\ player_data[i].AVG = 0 /\ player_data[i].GM >= 2
         /\ player_data[i].PLAYER \in DOMAIN player_to_position
         /\ player_data[j].AVG # 0 /\ player_data[j].GM >= 2
         /\ player_data[j].PLAYER \notin DOMAIN player_to_position
    /\ \E t \in Opponents :
         /\ Recorded(t)
         /\ StatsOf(t, "Forward").sample_size = 4
         /\ StatsOf(t, "Forward").avg_points_allowed % AvgScale # 0

(* the row a matchup was computed from: the last one of the pairing *)
RowOf(e) ==
    LET mine == { i \in DOMAIN player_data :
                    /\ player_data[i].PLAYER = e.player
                    /\ player_data[i].opponent = e.opponent
                    /\ player_data[i].AVG # 0 }
    IN  player_data[CHOOSE i \in mine : \A j \in mine : j <= i]

(* the rating of a matchup whose consistency adjustment is adj tenths *)
RatingWith(e, adj) ==
    Min(100, Max(10,
        RoundHalfEven(BaseRatingTenths(e.data.avg_points)
                        * SampleAdjustmentTenths(e.data.games_played) * adj, 100)))

(* C16: a pairing with fewer than 2 scores or with mean 0 has consistency 1
   and consistency adjustment 1.2; consistency is always in [0, 1]. *)
C16_Original ==
    \A k \in DOMAIN player_dvp_ratings :
        LET e == player_dvp_ratings[k]
            game_scores == GameScores(RowOf(e).cells)
        IN  /\ e.data.consistency \in 0..100
            /\ (Len(game_scores) < 2 \/ SeqSum(game_scores) = 0) =>
                   /\ e.data.consistency = 100
                   /\ e.data.rating = RatingWith(e, 12)

(* C16, as the code has it: a pairing with fewer than 2 scores has
   consistency 0 and consistency adjustment 0.8; a pairing with 2 scores or
   more whose mean is not positive has consistency 1 and adjustment 1.2;
   consistency is always in [0, 1]. *)
C16_DefaultConsistency ==
    \A k \in DOMAIN player_dvp_ratings :
        LET e == player_dvp_ratings[k]
            game_scores == GameScores(RowOf(e).cells)
        IN  /\ e.data.consistency \in 0..100
            /\ Len(game_scores) < 2 =>
                   /\ e.data.consistency = 0
                   /\ e.data.rating = RatingWith(e, 8)
            /\ (Len(game_scores) >= 2 /\ SeqSum(game_scores) <= 0) =>
                   /\ e.data.consistency = 100
                   /\ e.data.rating = RatingWith(e, 12)

C16_Witness ==
    /\ dvp_pc = "rated"
    /\ \E k, j, m, n \in DOMAIN player_dvp_ratings :
         /\ Len(GameScores(RowOf(player_dvp_ratings[k]).cells)) = 1
         /\ player_dvp_ratings[k].data.consistency = 0
         /\ player_dvp_ratings[k].data.rating = 29
         /\ GameScores(RowOf(player_dvp_ratings[j]).cells) = << 0, 0 >>
         /\ player_dvp_ratings[j].data.consistency = 100
         /\ GameScores(RowOf(player_dvp_ratings[m]).cells) = << 50, 70 >>
         /\ player_dvp_ratings[m].data.consistency = 67
         /\ GameScores(RowOf(player_dvp_ratings[n]).cells) = << >>

(* the place of a listed matchup in the iteration of player_dvp_ratings *)
InputIndex(e) ==
    CHOOSE k \in DOMAIN player_dvp_ratings :
        /\ player_dvp_ratings[k].player = e.player
        /\ player_dvp_ratings[k].opponent = e.opponent

(* C17: the best and worst lists hold exactly the matchups with
   games_played >= 3 (the first 20 of them), best by rating non-increasing
   and worst by rating non-decreasing, and matchups of equal rating stand
   in their input order in both lists. *)
C17_StableOrder ==
    dvp_pc = "matched" =>
        LET best == best_worst_player_matchups.best
            worst == best_worst_player_matchups.worst
            eligible == { k \in DOMAIN player_dvp_ratings :
                            player_dvp_ratings[k].data.games_played >= 3 }
        IN  /\ Len(best) = Min(20, Cardinality(eligible))
            /\ Len(worst) = Min(20, Cardinality(eligible))
            /\ \A i \in DOMAIN best :
                 /\ best[i].data.games_played >= 3
                 /\ \E k \in eligible : player_dvp_ratings[k] = best[i]
            /\ \A i \in DOMAIN worst :
                 /\ worst[i].data.games_played >= 3
                 /\ \E k \in eligible : player_dvp_ratings[k] = worst[i]
            /\ \A i, j \in DOMAIN best : i < j =>
                 \/ best[i].data.rating > best[j].data.rating
                 \/ /\ best[i].data.rating = best[j].data.rating
                    /\ InputIndex(best[i]) < InputIndex(best[j])
            /\ \A i, j \in DOMAIN worst : i < j =>
                 \/ worst[i].data.rating < worst[j].data.rating
                 \/ /\ worst[i].data.rating = worst[j].data.rating
                    /\ InputIndex(worst[i]) < InputIndex(worst[j])

C17_Witness ==
    /\ dvp_pc = "matched"
    /\ \E k \in DOMAIN player_dvp_ratings : player_dvp_ratings[k].data.games_played < 3
    /\ LET best == best_worst_player_matchups.best
           worst == best_worst_player_matchups.worst
       IN  /\ Len(best) >= 4
           /\ \E i, j \in DOMAIN best :
                i < j /\ best[i].data.rating = best[j].data.rating
                      /\ best[i].player # best[j].player
           /\ \E i, j \in DOMAIN worst :
                i < j /\ worst[i].data.rating = worst[j].data.rating
                      /\ worst[i].player # worst[j].player
           /\ best[1].data.rating > best[Len(best)].data.rating
           /\ worst[1] = best[Len(best)]

(***************************************************************************)
(* Properties of MasterStatsConsolidator                                   *)
(***************************************************************************)

SourceIds ==
    { "player_data.json", "fantasy_metrics", "fantasy_value", "dfs_summary",
      "csv_cba", "csv_kickins" }

Occurrences(sources, source) ==
    Cardinality({ i \in DOMAIN sources : sources[i] = source })

(* C19: however often a source lists a player, a merge pass leaves the
   profile's data_sources as long as one application does: every source
   identifier occurs at most once in it. *)
C19_ProvenanceOnce ==
    \A key \in DOMAIN master_stats : \A source \in SourceIds :
        Occurrences(master_stats[key].data_sources, source) <= 1

(* the source merged by the step about to run has a record for the key that
   supplies a points-per-minute number other than 0 *)
SuppliesPpm(key) ==
    \/ /\ ms_pc = "base_loaded"
       /\ \E i \in DOMAIN metrics_data :
            /\ NormalizeName(metrics_data[i].name) = key
            /\ metrics_data[i].ppm.kind = "num" /\ metrics_data[i].ppm.value # 0
    \/ /\ ms_pc = "value_merged"
       /\ \E i \in DOMAIN dfs_files :
            /\ NormalizeName(dfs_files[i].filename) = key
            /\ dfs_files[i].career # << >>
            /\ dfs_files[i].career[1]["PPM"].kind = "num"
            /\ dfs_files[i].career[1]["PPM"].value # 0

(* C20: a merge pass changes points_per_minute of a profile only when the
   source supplies a value other than the default for that player; a
   populated points_per_minute is not overwritten with 0 because the later
   source's record lacks the field. *)
C20_KeepsPopulatedField ==
    [][ \A key \in DOMAIN master_stats :
          master_stats'[key].points_per_minute # master_stats[key].points_per_minute
            => SuppliesPpm(key) ]_vars

HasSource(key, source) ==
    \E i \in DOMAIN master_stats[key].data_sources :
        master_stats[key].data_sources[i] = source

(* C21 as stated: a record of fantasy_metrics with a null or non-numeric own,
   con or ppm never ends the pass: every record of the file whose player has
   a profile is merged, so that profile names fantasy_metrics among its
   sources once merge_fantasy_metrics has run. *)
C21_Original ==
    ms_pc \notin { "idle", "constructed", "base_loaded" } =>
        \A i \in DOMAIN metrics_data :
            LET key == NormalizeName(metrics_data[i].name)
            IN  key \in DOMAIN master_stats => HasSource(key, "fantasy_metrics")

(* the keys a profile has after calculate_derived_stats: the keys
   load_base_player_data gives it and the values the passes add *)
ProfileFields ==
    DOMAIN BaseProfile(BasePlayer("", Absent, Absent)) \cup { "price_per_point" }

(* the profile carries a marker of its estimates: a key that is none of the
   data fields, or an entry of data_sources that names no source *)
Tagged(stats) ==
    \/ \E f \in DOMAIN stats : f \notin ProfileFields
    \/ \E i \in DOMAIN stats.data_sources : stats.data_sources[i] \notin SourceIds

(* C23 as stated: after calculate_derived_stats a profile that holds an
   estimated total_points, last_3_average or last_5_average (no merge pass
   writes these three fields) carries a marker that tells the estimate from
   an observed value. *)
C23_Original ==
    ms_pc \in { "derived", "saved" } =>
        \A key \in DOMAIN master_stats :
            ( \/ master_stats[key].total_points # 0
              \/ master_stats[key].last_3_average # 0
              \/ master_stats[key].last_5_average # 0 ) => Tagged(master_stats[key])

(* the profiles whose field is none of 0, '', None and 'Unknown' *)
PopulatedProfiles(field) ==
    { key \in DOMAIN master_stats :
        IF field = "value_rating"
        THEN master_stats[key].value_rating # ""
               /\ master_stats[key].value_rating # "Unknown"
        ELSE master_stats[key][field] # 0 }

(* C24: analyze_completeness, which save_master_file calls, leaves
   master_stats as it is and reports for each of the 11 critical fields the
   number of profiles whose field is none of 0, '', None and 'Unknown' and
   that number as a percentage of the profiles, rounded to one decimal; with
   no profile the percentage is 0. *)
C24_CompletenessReport ==
    [][ ms_pc = "derived" =>
          /\ master_stats' = master_stats
          /\ DOMAIN output_data'.data_completeness =
               { "average_points", "price", "break_even", "kicks", "handballs",
                 "marks", "tackles", "cba_percentage", "points_per_minute",
                 "ownership_percentage", "value_rating" }
          /\ \A field \in DOMAIN output_data'.data_completeness :
               LET report == output_data'.data_completeness[field]
                   total == Cardinality(DOMAIN master_stats)
                   n == Cardinality(PopulatedProfiles(field))
               IN  /\ report.populated = n
                   /\ total = 0 => report.percentage = 0
                   /\ total > 0 =>
                        2 * Abs(report.percentage * total - 1000 * n) <= total ]_vars

C24_Witness ==
    /\ ms_pc = "saved"
    /\ Cardinality(DOMAIN master_stats) = 2
    /\ \E key \in DOMAIN master_stats : master_stats[key].value_rating = "Unknown"
    /\ output_data.data_completeness["value_rating"].populated = 1
    /\ output_data.data_completeness["value_rating"].percentage = 500
    /\ output_data.data_completeness["kicks"].percentage = 0

(* the steps of run_consolidation, in the order it takes them *)
ConsolidationOrder ==
    << "constructed", "base_loaded", "metrics_merged", "value_merged",
       "dfs_merged", "csv_merged", "derived", "saved" >>

(* the files of the summaries directory whose update of the key's profile
   took place, and the rows of the CBA frame that were written to it *)
DfsWritten(key) ==
    { i \in DOMAIN dfs_files :
        /\ NormalizeName(dfs_files[i].filename) = key
        /\ ~ StartsWithCD(dfs_files[i].filename)
        /\ dfs_files[i].career # << >>
        /\ ~ DfsRaises(dfs_files[i].career[1]) }

CbaWritten(key) ==
    { i \in DOMAIN df_cba :
        /\ NormalizeName(df_cba[i].Player) = key
        /\ \A j \in 1..i :
             NormalizeName(df_cba[j].Player) \in DOMAIN master_stats
               => ~ FloatRaises(Get(df_cba[j].value, 0)) }

Last(S) == CHOOSE i \in S : \A j \in S : j <= i

LaterSourceWins ==
    \A key \in DOMAIN master_stats :
        /\ (DfsWritten(key) # { } /\ CbaWritten(key) # { }) =>
             master_stats[key].cba_percentage = df_cba[Last(CbaWritten(key))].value.value
        /\ (HasSource(key, "fantasy_metrics") /\ DfsWritten(key) # { }) =>
             master_stats[key].points_per_minute =
                 FloatIfTruthy(dfs_files[Last(DfsWritten(key))].career[1]["PPM"])

(* the records each source holds for the key's player, in the order the
   source is read: the records of fantasy_metrics, the summaries files that
   have a career row, the rows of the CBA frame *)
MetricsOf(key) ==
    { i \in DOMAIN metrics_data : NormalizeName(metrics_data[i].name) = key }

DfsOf(key) ==
    { i \in DOMAIN dfs_files :
        /\ NormalizeName(dfs_files[i].filename) = key
        /\ ~ StartsWithCD(dfs_files[i].filename)
        /\ dfs_files[i].career # << >> }

CbaOf(key) ==
    { i \in DOMAIN df_cba : NormalizeName(df_cba[i].Player) = key }

(* C27 as stated: when run_consolidation has ended, a points_per_minute that
   the last record of fantasy_metrics and the last summaries file of a player
   both give as a number is the one of the summaries file, the later source,
   and a cba_percentage that the last summaries file and the last CBA row
   both give as a number is the one of the CBA row. *)
C27_Original ==
    ms_pc = "saved" =>
        \A key \in DOMAIN master_stats :
            /\ ( /\ MetricsOf(key) # { } /\ DfsOf(key) # { }
                 /\ metrics_data[Last(MetricsOf(key))].ppm.kind = "num"
                 /\ dfs_files[Last(DfsOf(key))].career[1]["PPM"].kind = "num" ) =>
                 master_stats[key].points_per_minute =
                     dfs_files[Last(DfsOf(key))].career[1]["PPM"].value
            /\ ( /\ DfsOf(key) # { } /\ CbaOf(key) # { }
                 /\ dfs_files[Last(DfsOf(key))].career[1]["CB%"].kind = "num"
                 /\ df_cba[Last(CbaOf(key))].value.kind = "num" ) =>
                 master_stats[key].cba_percentage =
                     df_cba[Last(CbaOf(key))].value.value

(* C27, for the passes that wrote: run_consolidation takes its steps in the order base, fantasy_metrics,
   fantasy_value, dfs_summary, csv, derived pass, save, each once; when both
   dfs_summary and csv_cba wrote cba_percentage of a profile the saved value
   is csv_cba's, and when both fantasy_metrics and dfs_summary wrote
   points_per_minute the saved value is dfs_summary's. *)
C27_SourceOrder ==
    [][ /\ \E i \in 1..(Len(ConsolidationOrder) - 1) :
             ms_pc = ConsolidationOrder[i] /\ ms_pc' = ConsolidationOrder[i + 1]
        /\ ms_pc' \in { "csv_merged", "derived", "saved" } => LaterSourceWins' ]_vars

C27_Witness ==
    /\ ms_pc = "saved"
    /\ \E key \in DOMAIN master_stats :
         /\ HasSource(key, "fantasy_metrics")
         /\ HasSource(key, "dfs_summary")
         /\ HasSource(key, "csv_cba")
         /\ \E i \in DfsWritten(key) : dfs_files[i].career[1]["CB%"] = Number(4500)
         /\ master_stats[key].cba_percentage = 4200
         /\ master_stats[key].points_per_minute = 95

(* the keys load_base_player_data seeds: the normalized names of the records
   of player_data.json that have a name *)
BaseKeys ==
    { NormalizeName(base_players[i].name) :
        i \in { j \in DOMAIN base_players : base_players[j].name # "" } }

IsPrefix(s, t) == Len(s) <= Len(t) /\ SubSeq(t, 1, Len(s)) = s

(* C30: once load_base_player_data has run, the keys of master_stats are the
   keys it seeded and no later step adds or removes one, whatever keys the
   later sources list; each step leaves every data_sources list as it was or
   longer at its end, with 'player_data.json' first. *)
C30_KeySetFixed ==
    [][ ms_pc \notin { "idle", "constructed" } =>
          /\ DOMAIN master_stats = BaseKeys
          /\ DOMAIN master_stats' = DOMAIN master_stats
          /\ \A key \in DOMAIN master_stats :
               /\ IsPrefix(master_stats[key].data_sources,
                           master_stats'[key].data_sources)
               /\ master_stats'[key].data_sources[1] = "player_data.json" ]_vars

C30_Witness ==
    /\ ms_pc = "saved"
    /\ DOMAIN master_stats = { "tom smith" }
    /\ \E i \in DOMAIN metrics_data :
         NormalizeName(metrics_data[i].name) \notin DOMAIN master_stats
    /\ \E i \in DOMAIN dfs_files :
         NormalizeName(dfs_files[i].filename) \notin DOMAIN master_stats
    /\ Len(master_stats["tom smith"].data_sources) >= 4

(***************************************************************************)
(* Properties of normalize_name, checked under SpecNormalize               *)
(***************************************************************************)

(* C22 as stated: the name normalize_name returns is case-folded, holds no
   character other than word characters and spaces, has no space at its
   start or end and never two spaces in a row. *)
C22_Original ==
    nn_pc = "returned" =>
        /\ \A i \in DOMAIN nn_normalized :
             /\ nn_normalized[i] = Lower(nn_normalized[i])
             /\ IsWord(nn_normalized[i]) \/ IsSpace(nn_normalized[i])
        /\ nn_normalized # << >> =>
             /\ ~ IsSpace(nn_normalized[1])
             /\ ~ IsSpace(nn_normalized[Len(nn_normalized)])
        /\ \A i \in 1..(Len(nn_normalized) - 1) :
             ~ (IsSpace(nn_normalized[i]) /\ IsSpace(nn_normalized[i + 1]))

(***************************************************************************)
(* The protection rule of calculate_price_change_from_breakeven once more, *)
(* checked under SpecBreakEven                                             *)
(***************************************************************************)

(* C29: in calculate_price_change_from_breakeven, whenever the score is
   within 10 points of break-even the tier-adjusted change has magnitude at
   most 10 * 300 * 1.4 = 4200, below 15000, so the change is set to 0 and
   the result is max(current_price, 200000), for every current_price; the
   change applied to the price is other than 0 only when the score differs
   from break-even by more than 10 points.  (score_difference is in tenths
   and adjustment_factor in tenths.) *)
C29_MagnitudeNeverDecides ==
    PcfbReturned =>
        /\ Abs(score_difference) <= 100 =>
             /\ Abs(base_change * adjustment_factor) <= 42000
             /\ adjusted_change = 0
             /\ be_new_price = Max(current_price, 200000)
        /\ adjusted_change # 0 => Abs(score_difference) > 100

C29_Witness ==
    /\ PcfbReturned
    /\ score_difference = 100
    /\ current_price = 250000
    /\ base_change * adjustment_factor = 42000
    /\ adjusted_change = 0
    /\ be_new_price = 250000

(***************************************************************************)
(* The order of the stages of DVPAnalyzer.run_full_analysis, checked under *)
(* SpecDVPRun                                                              *)
(***************************************************************************)

(* the stages of run_full_analysis as steps of dvp_pc: a stage starts where
   the one before it ended; create_dvp_team_ratings ends ranked or raised *)
StageSteps ==
    { << "loaded", "grouped" >>, << "grouped", "aggregated" >>,
      << "aggregated", "ranked" >>, << "aggregated", "raised" >>,
      << "ranked", "rated" >>, << "rated", "matched" >> }

(* team_defensive_stats holds, for every team that some row contributes to,
   every contribution of every position group *)
EveryContributionCollected ==
    \A t \in Opponents :
        /\ Recorded(t) <=> \E q \in PositionSet : SampleRows(t, q) # << >>
        /\ Recorded(t) =>
             \A p \in PositionSet : StatsOf(t, p).sample_size = Len(SampleRows(t, p))

(* C26: the stages of run_full_analysis run in the order position grouping,
   team aggregation, team ranking, player rating, matchup extraction, and
   team_dvp_ratings is written only by the ranking stage, which starts when
   team_defensive_stats holds every contribution of every (team, position
   group) pair and leaves team_defensive_stats as it is. *)
C26_StageOrder ==
    [][ /\ << dvp_pc, dvp_pc' >> \in StageSteps
        /\ dvp_pc # "aggregated" => team_dvp_ratings' = team_dvp_ratings
        /\ dvp_pc = "aggregated" =>
             /\ EveryContributionCollected
             /\ team_defensive_stats' = team_defensive_stats ]_vars

C26_Witness ==
    /\ dvp_pc = "matched"
    /\ player_dvp_ratings # << >>
    /\ \E t \in Opponents : \E p \in PositionSet :
         /\ HasRating(t, p)
         /\ Len(SampleRows(t, p)) >= 4
    /\ \E t \in Opponents : \E p \in PositionSet :
         Len(SampleRows(t, p)) \in { 1, 2 }

(***************************************************************************)
(* Properties of test_breakeven_system, checked under SpecHarness          *)
(***************************************************************************)

(* the rounds in which the player has a score > 0 *)
ValidRounds(pl) ==
    { i \in DOMAIN pl.rounds : pl.rounds[i].kind = "num" /\ pl.rounds[i].value > 0 }

(* breakeven_data holds a break-even figure for the name *)
HasFigure(name) ==
    \E i \in DOMAIN tb_data.breakeven :
        tb_data.breakeven[i].name = name /\ tb_data.breakeven[i].break_even # 0

ToBeSkipped(pl) ==
    \/ pl.r22.kind = "absent"
    \/ pl.r23.kind = "absent"
    \/ Cardinality(ValidRounds(pl)) < 3
    \/ ~ HasFigure(pl.name)

ResultsOf(name) == { j \in DOMAIN test_results : test_results[j].name = name }

(* C25: in test_breakeven_system a player that one of the two snapshots
   lacks, that has fewer than 3 scores > 0 in the rounds searched, or for
   which breakeven_data has no break-even figure gets no entry in
   test_results; the number of tests, the summed price error (the mean
   absolute error times that number) and the within-$3,000 count are those
   of the entries of test_results alone, and nothing is computed when
   there is no entry. *)
C25_SkippedPlayers ==
    /\ \A i \in DOMAIN tb_data.players :
         ToBeSkipped(tb_data.players[i]) => ResultsOf(tb_data.players[i].name) = { }
    /\ tb_pc = "returned" =>
         IF test_results = << >> THEN tb_summary = EmptyDict
         ELSE /\ tb_summary.tests_completed = Len(test_results)
              /\ tb_summary.price_error_sum =
                   SeqSum([ j \in DOMAIN test_results |-> test_results[j].error ])
              /\ tb_summary.within_target_count =
                   Cardinality({ j \in DOMAIN test_results : test_results[j].error <= 3000 })

C25_Witness ==
    /\ tb_pc = "returned"
    /\ Len(test_results) = 1
    /\ tb_summary.tests_completed = 1
    /\ tb_summary.within_target_count = 1
    /\ \E i \in DOMAIN tb_data.players :
         /\ tb_data.players[i].r22.kind = "num"
         /\ tb_data.players[i].r23.kind = "num"
         /\ Cardinality(ValidRounds(tb_data.players[i])) = 2
         /\ HasFigure(tb_data.players[i].name)
         /\ ResultsOf(tb_data.players[i].name) = { }

(***************************************************************************)
(* Properties of DFSPipelineOrchestrator.run, checked under SpecPipeline   *)
(***************************************************************************)

(* C28: in DFSPipelineOrchestrator.run a file leaves raw_data only for the
   archive, and only when the loader step succeeded, the progress file could
   be read and lists the file's name as completed; nothing else enters the
   archive; after a loader failure or without a progress file no file is
   moved; a file listed as failed, or not listed, stays in raw_data; and
   run returns success exactly when both the loader step and the archive
   step succeeded. *)
C28_ArchiveOnlyCompleted ==
    [][ /\ \A f \in raw_data_files \ raw_data_files' :
             /\ loader_success
             /\ progress_file.state = "loaded"
             /\ f \in progress_file.completed
             /\ f \in archive_files'
        /\ archive_files' \ archive_files \subseteq raw_data_files \ raw_data_files'
        /\ archive_files \subseteq archive_files'
        /\ \A f \in raw_data_files :
             (f \in progress_file.failed \/ f \notin progress_file.completed)
               => f \in raw_data_files'
        /\ or_pc' = "returned" =>
             (or_result' <=> (loader_success /\ archive_success)) ]_vars

C28_Witness ==
    /\ or_pc = "returned"
    /\ or_result
    /\ "f2.xlsx" \in archive_files
    /\ "f2.xlsx" \in progress_file.completed
    /\ "f1.xlsx" \in raw_data_files
    /\ "f1.xlsx" \in progress_file.failed

====
